---- MODULE Spec2Model ----
(***************************************************************************)
(* Session / CSRF / authentication subsystem of the shop server            *)
(* (src/server.js).  The server is one Node.js process: every middleware   *)
(* and every better-sqlite3 statement runs synchronously, and a handler    *)
(* yields the thread only at an `await` (password hashing).  An action of  *)
(* this module is therefore one uninterrupted run of a request: from its   *)
(* arrival to its response or to its next `await`.                         *)
(*                                                                         *)
(* Modelling notes                                                         *)
(*  - Tokens, passwords and e-mails are drawn from alphabets on which the  *)
(*    body sanitizer (sanitize-html, an external library) is the identity. *)
(*  - PBKDF2 is modelled as the injective pairing of password and salt.    *)
(*  - crypto.randomBytes never repeats a session id or a salt: ids and     *)
(*    salts are taken from counters; a CSRF token is any element of Tokens.*)
(*  - The session cookie of a request is any id (cookies can be replayed   *)
(*    or forged); the csrf_token cookie is the browser's jar, which holds  *)
(*    the value GET /api/csrf-token set last.                              *)
(***************************************************************************)
EXTENDS Integers, Sequences, FiniteSets, Bags, TLC

\* ------------------------------------------------------------------ bounds
MaxSessions   == 2    \* session ids generated in a behaviour
MaxSalt       == 3    \* salts generated in a behaviour (two at setup)
MaxInflight   == 2    \* requests suspended at an await at the same time
MaxDay        == 4    \* last day the clock reaches
MaxTod        == 1    \* last time-of-day unit within a day
ClockSessions == 1    \* session ids generated in a behaviour of SpecClock
ClockInflight == 1    \* requests suspended at the same time in SpecClock
ChangeSalt    == 4    \* salts generated in a behaviour of SpecChange
MaxOrders     == 2    \* orders persisted in a behaviour
MaxQty        == 2    \* largest quantity a cart line reaches or a user enters

\* ------------------------------------------------------- program constants
SessionTTLDays == 3   \* expiresAt.setDate(expiresAt.getDate() + 3)
MinPasswordLen == 8   \* newPassword.length < 8

\* ------------------------------------------------------------ value domains
Users     == {"admin", "user"}
NoUser    == "nobody"
Emails    == {"admin@example.com", "user@example.com", "ghost@example.com"}
NoText    == ""
Passwords == {"adminabc", "user123"}
Tokens    == {"tA", "tB"}
NoToken   == "none"
NoSid     == 0
ForgedSid == NoSid - 1

\* users table columns that never change: email, is_admin (setupInitialUsers)
EmailOf(u) == IF u = "admin" THEN "admin@example.com" ELSE "user@example.com"
IsAdminUser(u) == u = "admin"

\* req.body.<field> is falsy when absent or empty
Missing(x) == x = NoText

\* String.length of the passwords in the domain
PwLength(p) == Len(p)

\* ----------------------------------------------------------- pure functions
\* hashPassword: PBKDF2(password, salt), hex
hashPassword(password, salt) == <<password, salt>>

\* faulty verification: every password passes (the verdict is not awaited)
verifyPassword_AcceptAll(password, storedHash, salt) == TRUE

\* verifyPassword: hash === storedHash
verifyPassword(password, storedHash, salt) == hashPassword(password, salt) = storedHash

\* two decimal digits as character codes
Digits2(n) == <<48 + (n \div 10), 48 + (n % 10)>>

\* Date.prototype.toISOString, as the login handler stores it in expires_at:
\* "<date>T<time>.000Z"  (the fields equal on both sides of the comparison,
\* year-month and minutes:seconds, are left out)
toISOString(t) == Digits2(t.day) \o <<84>> \o Digits2(t.tod) \o <<46, 48, 48, 48, 90>>

\* SQLite datetime('now'): "<date> <time>"
datetimeNow(t) == Digits2(t.day) \o <<32>> \o Digits2(t.tod)

\* SQLite comparison of two TEXT values (BINARY collation: memcmp, then length).
\* expires_at is declared TIMESTAMP (NUMERIC affinity), but neither text is a
\* well-formed number, so both operands stay TEXT.
RECURSIVE TextGreater(_, _)
TextGreater(a, b) ==
  IF a = <<>> THEN FALSE
  ELSE IF b = <<>> THEN TRUE
  ELSE IF Head(a) # Head(b) THEN Head(a) > Head(b)
  ELSE TextGreater(Tail(a), Tail(b))

\* the instant an expires_at text denotes
InstantOf(text) == [day |-> (text[1] - 48) * 10 + (text[2] - 48),
                    tod |-> (text[4] - 48) * 10 + (text[5] - 48)]

\* instant a is strictly before instant b
Before(a, b) == a.day < b.day \/ (a.day = b.day /\ a.tod < b.tod)

\* expiresAt = new Date(); expiresAt.setDate(expiresAt.getDate() + 3)
ExpiryFrom(t) == [day |-> t.day + SessionTTLDays, tod |-> t.tod]

\* ------------------------------------------------------------------- state
\* ------------------------------------------------------------ the browser
\* Text the client code takes apart (names, product ids) is a sequence of
\* pieces; a piece " " is one whitespace character, <<>> is the empty string.
Truthy(text) == text # <<>>

\* text.replace(/\s+/g, '_'): every run of whitespace becomes one '_'
RECURSIVE ReplaceWhitespace(_)
ReplaceWhitespace(text) ==
  IF text = <<>> THEN <<>>
  ELSE IF Head(text) # " " THEN <<Head(text)>> \o ReplaceWhitespace(Tail(text))
  ELSE IF Len(text) > 1 /\ text[2] = " " THEN ReplaceWhitespace(Tail(text))
  ELSE <<"_">> \o ReplaceWhitespace(Tail(text))

\* `name_${name.replace(/\s+/g, '_')}`
FallbackPid(name) == <<"name_">> \o ReplaceWhitespace(name)

\* the Add to Cart buttons of the pages: data-id, data-name, data-price (a
\* price in cents); a button without data-id, as the old pages have them,
\* and a button whose price is 0
Buttons ==
  { [id |-> <<"1">>, name |-> <<"Apple">>, price |-> 150],
    [id |-> <<"2">>, name |-> <<"Pear", " ", " ", "Juice">>, price |-> 330],
    [id |-> <<>>, name |-> <<"Apple">>, price |-> 150],
    [id |-> <<"2">>, name |-> <<"Pear", " ", " ", "Juice">>, price |-> 0] }

\* what the user can leave in a quantity input: nothing, or an integer
QtyValues ==
  {[empty |-> TRUE, n |-> 0]} \cup {[empty |-> FALSE, n |-> k] : k \in (0 - 1) .. MaxQty}

\* parseInt(input.value): NaN for the empty input
parseInt(v) == [nan |-> v.empty, n |-> v.n]

\* localStorage: a key is unset (getItem returns null) or holds a JSON text
StorageKeys == {"cart", "user", "csrf_token"}
NoValue == [set |-> FALSE, json |-> <<>>]
Stored(json) == [set |-> TRUE, json |-> json]

\* a property of a parsed object: undefined reads as the empty text
Prop(obj, key) == IF key \in DOMAIN obj THEN obj[key] ELSE <<>>

\* class CartItem
CartItem(pid, name, price, qty) == [pid |-> pid, name |-> name, price |-> price, qty |-> qty]

\* this.items.find(item => item.pid === pid), as an index (0: not found)
FindByPid(its, pid) ==
  IF \E i \in 1 .. Len(its) : Prop(its[i], "pid") = pid
  THEN CHOOSE i \in 1 .. Len(its) :
         /\ Prop(its[i], "pid") = pid
         /\ \A j \in 1 .. (i - 1) : Prop(its[j], "pid") # pid
  ELSE 0

\* cart.find(item => item.name === newItem.name), as an index (0: not found)
FindByName(its, name) ==
  IF \E i \in 1 .. Len(its) : its[i].name = name
  THEN CHOOSE i \in 1 .. Len(its) :
         /\ its[i].name = name
         /\ \A j \in 1 .. (i - 1) : its[j].name # name
  ELSE 0

\* faulty addItem: a line is pushed whether or not the pid is in the cart
addItem_AlwaysPush(its, pid, name, price, qty) ==
  Append(its, CartItem(pid, name, price, qty))

\* ShoppingCart.addItem
addItem(its, pid, name, price, qty) ==
  LET i == FindByPid(its, pid)
  IN IF i # 0 THEN [its EXCEPT ![i].qty = @ + qty]
     ELSE Append(its, CartItem(pid, name, price, qty))

\* ShoppingCart.removeItem: this.items.filter(item => item.pid !== pid)
removeItem(its, pid) ==
  LET keep(it) == Prop(it, "pid") # pid IN SelectSeq(its, keep)

\* faulty updateItemQty: only the quantity 0 removes the line
updateItemQty_ZeroOnly(its, pid, newQty) ==
  LET i == FindByPid(its, pid)
  IN IF newQty = 0 THEN removeItem(its, pid)
     ELSE IF i # 0 THEN [its EXCEPT ![i].qty = newQty]
     ELSE its

\* ShoppingCart.updateItemQty
updateItemQty(its, pid, newQty) ==
  LET i == FindByPid(its, pid)
  IN IF newQty <= 0 THEN removeItem(its, pid)
     ELSE IF i # 0 THEN [its EXCEPT ![i].qty = newQty]
     ELSE its

\* JSON.stringify(items): each item with the properties it has
stringify(its) == [i \in 1 .. Len(its) |-> [k \in DOMAIN its[i] |-> its[i][k]]]

\* ShoppingCart.saveToStorage
saveToStorage(st, its) == [st EXCEPT !["cart"] = Stored(stringify(its))]

\* faulty loadFromStorage: the stored quantity is not read
loadFromStorage_QtyOne(its, st) ==
  LET saved == st["cart"].json
  IN IF ~st["cart"].set THEN its
     ELSE [i \in 1 .. Len(saved) |->
             CartItem(Prop(saved[i], "pid"), saved[i].name, saved[i].price, 1)]

\* ShoppingCart.loadFromStorage: the first saved item decides the format of all
loadFromStorage(its, st) ==
  LET saved == st["cart"].json
  IN IF ~st["cart"].set THEN its
     ELSE IF Len(saved) > 0 /\ Truthy(Prop(saved[1], "pid"))
     THEN [i \in 1 .. Len(saved) |->
             CartItem(Prop(saved[i], "pid"), saved[i].name, saved[i].price, saved[i].qty)]
     ELSE [i \in 1 .. Len(saved) |->
             CartItem(FallbackPid(saved[i].name), saved[i].name, saved[i].price,
                      saved[i].qty)]

\* scripts.js loadCart: cartJSON ? JSON.parse(cartJSON) : []
loadCart(st) == IF st["cart"].set THEN st["cart"].json ELSE <<>>

\* scripts.js saveCart
saveCart(st, c) == [st EXCEPT !["cart"] = Stored(stringify(c))]

\* scripts.js addItemToCart: items are told apart by name
addItemToCart(c, newItem) ==
  LET i == FindByName(c, newItem.name)
  IN IF i # 0 THEN [c EXCEPT ![i].qty = @ + newItem.qty]
     ELSE Append(c, newItem)

\* ------------------------------------------------------------------ the shop
\* products table, as setup leaves it and after the admin repriced product 1
Catalog ==
  [pid \in {<<"1">>, <<"2">>} |->
     IF pid = <<"1">> THEN [name |-> <<"Apple">>, price |-> 150]
     ELSE [name |-> <<"Pear", " ", " ", "Juice">>, price |-> 330]]
Repriced == [Catalog EXCEPT ![<<"1">>].price = 120]

\* carts a browser's pages leave in localStorage: none; one written by
\* cart.js; one written by cart.js for a product of an old page (fallback
\* product id); one written by scripts.js after -1 was typed as quantity
StoredCarts ==
  { NoValue,
    Stored(<<CartItem(<<"1">>, <<"Apple">>, 150, 2),
             CartItem(<<"2">>, <<"Pear", " ", " ", "Juice">>, 330, 1)>>),
    Stored(<<CartItem(<<"name_", "Apple">>, <<"Apple">>, 150, 1),
             CartItem(<<"1">>, <<"Apple">>, 150, 1)>>),
    Stored(<<[name |-> <<"Apple">>, price |-> 150, qty |-> 0 - 1]>>) }

\* the checkout page before it is loaded, and no order request handled yet
NoRequest == [items |-> <<>>, csrf_token |-> NoToken, sent |-> FALSE]
NoCheckout == [token |-> NoToken, disabled |-> FALSE, request |-> NoRequest,
               status |-> 0, response |-> <<>>, submitted |-> FALSE, fields |-> <<>>]
NoReply == [request |-> NoRequest, status |-> 0, orderId |-> 0]

\* faulty cartData: the line carries the cart's price as well
cartData_WithPrice(its) ==
  [i \in 1 .. Len(its) |->
     [pid |-> its[i].pid, quantity |-> its[i].qty, price |-> its[i].price]]

\* checkout.js: cartItems.map(item => ({ pid: item.pid, quantity: item.qty }))
cartData(its) == [i \in 1 .. Len(its) |-> [pid |-> its[i].pid, quantity |-> its[i].qty]]

\* POST /api/orders/create, validation: every product id names a catalog
\* entry and every quantity is a positive integer (a request without lines
\* is taken as invalid)
ValidOrderItems(cat, lines) ==
  /\ Len(lines) > 0
  /\ \A i \in 1 .. Len(lines) : lines[i].pid \in DOMAIN cat /\ lines[i].quantity >= 1

\* POST /api/orders/create: name and price of each line are read from the catalog
OrderLines(cat, lines) ==
  [i \in 1 .. Len(lines) |->
     [pid |-> lines[i].pid, name |-> cat[lines[i].pid].name,
      price |-> cat[lines[i].pid].price, quantity |-> lines[i].quantity]]

\* total_amount of an order
RECURSIVE OrderTotal(_)
OrderTotal(lines) ==
  IF lines = <<>> THEN 0
  ELSE Head(lines).price * Head(lines).quantity + OrderTotal(Tail(lines))

\* faulty validation: the lines before the first invalid one are persisted
ordersCreate_Partial(cat, os, req, cookieTok) ==
  LET bad    == {i \in 1 .. Len(req.items) :
                   req.items[i].pid \notin DOMAIN cat \/ req.items[i].quantity < 1}
      prefix == IF bad = {} THEN req.items
                ELSE SubSeq(req.items, 1, (CHOOSE i \in bad : \A j \in bad : i <= j) - 1)
      lines  == OrderLines(cat, prefix)
      row    == [orderId |-> Len(os) + 1, items |-> lines, total |-> OrderTotal(lines),
                 status |-> "CREATED"]
  IN IF req.csrf_token = NoToken \/ req.csrf_token # cookieTok
     THEN [status |-> 403, orders |-> os, orderId |-> 0]
     ELSE IF Len(prefix) = 0 THEN [status |-> 400, orders |-> os, orderId |-> 0]
     ELSE [status |-> IF bad = {} THEN 201 ELSE 400, orders |-> Append(os, row),
           orderId |-> IF bad = {} THEN row.orderId ELSE 0]

\* POST /api/orders/create: the CSRF token of the request must equal the
\* csrf_token cookie; invalid items are answered 400 and nothing is stored;
\* otherwise one order is stored in state CREATED, priced from the catalog
ordersCreate(cat, os, req, cookieTok) ==
  LET lines == OrderLines(cat, req.items)
      row   == [orderId |-> Len(os) + 1, items |-> lines, total |-> OrderTotal(lines),
                status |-> "CREATED"]
  IN IF req.csrf_token = NoToken \/ req.csrf_token # cookieTok
     THEN [status |-> 403, orders |-> os, orderId |-> 0]
     ELSE IF ~ValidOrderItems(cat, req.items)
     THEN [status |-> 400, orders |-> os, orderId |-> 0]
     ELSE [status |-> 201, orders |-> Append(os, row), orderId |-> row.orderId]

\* String(n) of a non-negative integer: its decimal digits
DigitText == <<"0", "1", "2", "3", "4", "5", "6", "7", "8", "9">>
RECURSIVE Decimal(_)
Decimal(n) == IF n < 10 THEN <<DigitText[n + 1]>>
              ELSE Decimal(n \div 10) \o <<DigitText[(n % 10) + 1]>>

\* Number.prototype.toFixed(2) of a price (kept in cents): the whole part, a
\* point and two digits
toFixed2(cents) ==
  Decimal(cents \div 100) \o <<".", DigitText[((cents % 100) \div 10) + 1],
                               DigitText[(cents % 10) + 1]>>

\* faulty generatePayPalItemFields: the fields are numbered from 0
RECURSIVE generatePayPalItemFields_ZeroBased(_, _)
generatePayPalItemFields_ZeroBased(its, index) ==
  IF index >= Len(its) THEN <<>>
  ELSE LET item == its[index + 1]
           itemIndex == Decimal(index)
       IN << [name |-> <<"item_name_">> \o itemIndex, value |-> item.name],
             [name |-> <<"item_number_">> \o itemIndex, value |-> item.pid],
             [name |-> <<"amount_">> \o itemIndex, value |-> toFixed2(item.price)],
             [name |-> <<"quantity_">> \o itemIndex, value |-> Decimal(item.quantity)] >>
           \o generatePayPalItemFields_ZeroBased(its, index + 1)

\* checkout.js generatePayPalItemFields, the forEach from index on:
\* items.forEach((item, index) => ...) appends four hidden inputs per item,
\* numbered index + 1; the result is the content of the paypal-items
\* container, input by input
RECURSIVE generatePayPalItemFields(_, _)
generatePayPalItemFields(its, index) ==
  IF index >= Len(its) THEN <<>>
  ELSE LET item == its[index + 1]
           itemIndex == Decimal(index + 1)
       IN << [name |-> <<"item_name_">> \o itemIndex, value |-> item.name],
             [name |-> <<"item_number_">> \o itemIndex, value |-> item.pid],
             [name |-> <<"amount_">> \o itemIndex, value |-> toFixed2(item.price)],
             [name |-> <<"quantity_">> \o itemIndex, value |-> Decimal(item.quantity)] >>
           \o generatePayPalItemFields(its, index + 1)

\* localStorage.getItem(key): the stored text, or null
NullValue == [null |-> TRUE, text |-> ""]
localStorageGetItem(st, key) == IF st[key].set THEN [null |-> FALSE, text |-> st[key].json] ELSE NullValue

\* localStorage.setItem(key, text), localStorage.removeItem(key)
localStorageSetItem(st, key, text) == [st EXCEPT ![key] = Stored(text)]
localStorageRemoveItem(st, key) == [st EXCEPT ![key] = NoValue]

\* a value as a fetch header: null is sent as the text "null"
HeaderText(v) == IF v.null THEN "null" ELSE v.text

\* a value as the csrf_token member of a JSON body: null is sent as null,
\* which the server reads as no token
BodyToken(v) == IF v.null THEN NoToken ELSE v.text

\* no request of the page is recorded
NoFetch == [route |-> "none", tok |-> NoToken, cookie |-> NoToken]

\* a browser with no cookie and no page
NoBrowser == [session_id |-> NoSid, form |-> NoToken, button |-> FALSE, await |-> "none",
              fetch |-> NoFetch, done |-> "none"]

\* pid.startsWith('name_')
StartsWithName(pid) == pid[1] = "name_"

\* refreshProductDetails, the loop from position k of pids to its next fetch:
\* fallback pids are skipped; startsWith of an undefined pid throws, which
\* ends the function before it saves
RECURSIVE NextFetch(_, _)
NextFetch(pids, k) ==
  IF k > Len(pids) THEN [k |-> k, threw |-> FALSE]
  ELSE IF pids[k] = <<>> THEN [k |-> k, threw |-> TRUE]
  ELSE IF StartsWithName(pids[k]) THEN NextFetch(pids, k + 1)
  ELSE [k |-> k, threw |-> FALSE]

\* faulty refresh: an item that is no longer in the cart is put back
refreshItem_PutBack(its, pid, product) ==
  LET i == FindByPid(its, pid)
  IN IF i # 0 THEN [its EXCEPT ![i].name = product.name, ![i].price = product.price]
     ELSE Append(its, CartItem(pid, product.name, product.price, 1))

\* refreshProductDetails, after a fetch that answered ok: the item of that
\* pid, if the cart still has it, gets the product's name and price
refreshItem(its, pid, product) ==
  LET i == FindByPid(its, pid)
  IN IF i # 0 THEN [its EXCEPT ![i].name = product.name, ![i].price = product.price]
     ELSE its

\* no refreshProductDetails is under way; step and left are history: the
\* last thing the refresh did and the items it left then
NoRefresh == [active |-> FALSE, pids |-> <<>>, k |-> 0, step |-> "none", left |-> <<>>]

\* a tab that has loaded no page
NoTab == [page |-> "none", items |-> <<>>, cart |-> <<>>]

\* the categories and products tables as initializeDatabase creates them:
\* rows of categories as [catid, name], rows of products as [pid, catid], the
\* ids AUTOINCREMENT has given out, the product updates that wait for
\* resizeProductImage, and the last answer of an admin route
Inventory == [categories |-> {}, products |-> {}, lastCatid |-> 0, lastPid |-> 0,
              pending |-> {}, route |-> "none", id |-> 0, status |-> 0]

\* ids AUTOINCREMENT gives out in a run, product updates that wait at a time
MaxCatid == 3
MaxPid == 2
MaxPending == 1

CatIds(inv) == {c.catid : c \in inv.categories}
Pids(inv) == {p.pid : p \in inv.products}

\* validateInput(id, 'catid'): a positive integer
ValidId(id) == id > 0

\* products.catid REFERENCES categories(catid): the statement throws unless
\* the row's catid names a row of categories
ForeignKeyOk(inv, catid) == catid \in CatIds(inv)

\* res.status(status).json(...) of a route
Answer(inv, route, id, status) == [inv EXCEPT !.route = route, !.id = id, !.status = status]

\* faulty DELETE /api/categories/:id: the products of the category are not
\* counted and no foreign key stops the statement
categoriesDelete_NoCount(inv, id) ==
  IF ~ValidId(id) THEN Answer(inv, "DELETE /api/categories/:id", id, 400)
  ELSE IF id \notin CatIds(inv) THEN Answer(inv, "DELETE /api/categories/:id", id, 404)
  ELSE Answer([inv EXCEPT !.categories = {c \in @ : c.catid # id}],
              "DELETE /api/categories/:id", id, 200)

\* DELETE /api/categories/:id: 400 while a product has the category
categoriesDelete(inv, id) ==
  IF ~ValidId(id) THEN Answer(inv, "DELETE /api/categories/:id", id, 400)
  ELSE IF Cardinality({p \in inv.products : p.catid = id}) > 0
  THEN Answer(inv, "DELETE /api/categories/:id", id, 400)
  ELSE IF id \notin CatIds(inv) THEN Answer(inv, "DELETE /api/categories/:id", id, 404)
  ELSE Answer([inv EXCEPT !.categories = {c \in @ : c.catid # id}],
              "DELETE /api/categories/:id", id, 200)

\* updateProductInDatabase: UPDATE products SET ... catid = ? WHERE pid = ?
updateProductInDatabase(inv, id, catid) ==
  IF id \in Pids(inv) /\ ~ForeignKeyOk(inv, catid)
  THEN Answer(inv, "PUT /api/products/:id", id, 500)
  ELSE Answer([inv EXCEPT !.products = {p \in @ : p.pid # id}
                                         \cup {[pid |-> id, catid |-> catid] : p \in {q \in @ : q.pid = id}}],
              "PUT /api/products/:id", id, 200)

VARIABLES
  users,         \* users table: user -> [password, salt]
  sessions,      \* sessions table: set of [session_id, userid, expires_at]
  session_data,  \* session_data table, key 'csrf_token': set of [session_id, value]
  owner,         \* history: owner[s] is the user session id s was issued to
  saltCount,     \* salts generated so far
  now,           \* the clock
  issued,        \* csrf_token cookie of the browser (GET /api/csrf-token)
  inflight,      \* bag of the requests suspended at an await
  cpMark,        \* history: cpMark[u] = session ids issued when u's password last changed
  loggedOut,     \* history: ids of the sessions a successful logout destroyed
  pwChange,      \* history: pwChange[u] = the passwords of u's last successful change
  last,          \* the request step just taken and its outcome
  page,          \* the script of the page the browser shows
  items,         \* cart.js: ShoppingCart.items of that page
  cart,          \* scripts.js: the cart of that page's DOMContentLoaded closure
  storage,       \* localStorage of the browser, by key
  catalog,       \* products table: product id -> [name, price]
  orders,        \* the orders persisted so far
  checkout,      \* checkout page: the form's token, the button, the request under way
  reply,         \* the order request the server handled last and its answer
  browser,       \* the browser's session_id cookie, its login form, its fetch under way
  refresh,       \* cart.js: the refreshProductDetails of the page, where it waits
  other,         \* the page and the carts of the browser's other tab
  inventory      \* categories table, and the products table by category

\* the state of the browser
client == <<page, items, cart, storage>>

\* the catalog, the orders and the checkout page's exchange with the server
shop == <<catalog, orders, checkout, reply>>

\* the refresh of the page, the other tab, the tables of the admin pages
extra == <<refresh, other, inventory>>

vars == <<users, sessions, session_data, owner, saltCount, now, issued, inflight, cpMark,
          loggedOut, pwChange, last, client, shop, browser, refresh, other, inventory>>

\* a suspended request: where it waits and the locals it still reads
Suspended(pc, uid, match, csrf, pw, newpw, newsalt) ==
  [pc |-> pc, uid |-> uid, match |-> match, csrf |-> csrf, pw |-> pw, newpw |-> newpw,
   newsalt |-> newsalt]

NoStep == [kind |-> "none", route |-> "none", method |-> "GET", sid |-> NoSid,
           tok |-> NoToken, auth |-> "none", csrf |-> "none", status |-> 0,
           ran |-> FALSE, uid |-> NoUser, pwOk |-> FALSE, setSid |-> NoSid,
           pw |-> NoText, newpw |-> NoText, error |-> NoText]

Init ==
  /\ users = [u \in Users |-> IF u = "admin"
                 THEN [password |-> hashPassword("adminabc", 1), salt |-> 1]
                 ELSE [password |-> hashPassword("user123", 2), salt |-> 2]]
  /\ sessions = {}
  /\ session_data = {}
  /\ owner = <<>>
  /\ saltCount = 2
  /\ now = [day |-> 0, tod |-> 0]
  /\ issued = NoToken
  /\ inflight = EmptyBag
  /\ cpMark = [u \in Users |-> 0]
  /\ loggedOut = {}
  /\ pwChange = [u \in Users |-> [old |-> NoText, new |-> NoText]]
  /\ last = NoStep
  /\ page = "none"
  /\ items = <<>>
  /\ cart = <<>>
  /\ storage = [k \in StorageKeys |-> NoValue]
  /\ catalog = Catalog
  /\ orders = <<>>
  /\ checkout = NoCheckout
  /\ reply = NoReply
  /\ browser = NoBrowser
  /\ refresh = NoRefresh
  /\ other = NoTab
  /\ inventory = Inventory

\* ------------------------------------------------------------ table queries
\* SELECT * FROM sessions WHERE session_id = ?
SessionRows(ss, sid) == {r \in ss : r.session_id = sid}

\* SELECT value FROM session_data WHERE session_id = ? AND key = 'csrf_token'
Pinned(sd, sid) ==
  IF \E d \in sd : d.session_id = sid
  THEN (CHOOSE d \in sd : d.session_id = sid).value
  ELSE NoToken

\* faulty schema: session_data without ON DELETE CASCADE
Cascade_Off(sd, ss) == sd

\* DELETE FROM sessions ...; ON DELETE CASCADE removes the session_data rows
Cascade(sd, ss) == {d \in sd : \E r \in ss : r.session_id = d.session_id}

\* req.cookies.session_id of a request: absent, an id the server issued
\* (replayed or current), or an id it never issued
Cookies == {NoSid, ForgedSid} \cup (1 .. Len(owner))

\* ---------------------------------------------------------------- middleware
\* const csrfToken = req.body.csrf_token || req.headers['x-csrf-token']
RequestToken(body, header) == IF body # NoToken THEN body ELSE header

\* the <<body field, header>> pairs requests are drawn from: the header is
\* read only when the body field is absent
TokenInputs ==
  {bh \in (Tokens \cup {NoToken}) \X (Tokens \cup {NoToken}) :
     bh[1] = NoToken \/ bh[2] = NoToken}

\* faulty session query: the expiry of the row is not looked at
AuthRows_NoExpiry(ss, sid, t) == {r \in ss : r.session_id = sid}

\* isAuthenticated: the row the session query returns, as a set (empty: 401)
\*   ... WHERE s.session_id = ? AND s.expires_at > datetime('now')
AuthRows(ss, sid, t) ==
  IF sid = NoSid THEN {}
  ELSE {r \in ss : r.session_id = sid /\ TextGreater(r.expires_at, datetimeNow(t))}

isAuthenticated(ss, sid, t) == AuthRows(ss, sid, t) # {}

\* req.user.userid set by isAuthenticated
ReqUser(ss, sid, t) ==
  IF isAuthenticated(ss, sid, t) THEN (CHOOSE r \in AuthRows(ss, sid, t) : TRUE).userid
  ELSE NoUser

\* isAdmin: req.user && req.user.is_admin
isAdmin(uid) == uid # NoUser /\ IsAdminUser(uid)

\* faulty guards: a mismatching token replaces the stored one and passes /
\* a mismatching token passes and the stored one stays / the first token
\* seen for a session passes without being stored
validateCSRF_LastWriteWins(method, tok, sid, ss, sd) ==
  IF method = "GET" THEN [next |-> TRUE, sd |-> sd]
  ELSE IF tok = NoToken THEN [next |-> FALSE, sd |-> sd]
  ELSE IF sid # NoSid /\ SessionRows(ss, sid) # {}
  THEN [next |-> TRUE,
        sd |-> {d \in sd : d.session_id # sid} \cup {[session_id |-> sid, value |-> tok]}]
  ELSE [next |-> TRUE, sd |-> sd]

validateCSRF_NoCompare(method, tok, sid, ss, sd) ==
  IF method = "GET" THEN [next |-> TRUE, sd |-> sd]
  ELSE IF tok = NoToken THEN [next |-> FALSE, sd |-> sd]
  ELSE IF sid # NoSid /\ SessionRows(ss, sid) # {} /\ Pinned(sd, sid) = NoToken
  THEN [next |-> TRUE, sd |-> sd \cup {[session_id |-> sid, value |-> tok]}]
  ELSE [next |-> TRUE, sd |-> sd]

validateCSRF_NoStore(method, tok, sid, ss, sd) ==
  IF method = "GET" THEN [next |-> TRUE, sd |-> sd]
  ELSE IF tok = NoToken THEN [next |-> FALSE, sd |-> sd]
  ELSE IF sid # NoSid /\ SessionRows(ss, sid) # {} /\ Pinned(sd, sid) \notin {NoToken, tok}
  THEN [next |-> FALSE, sd |-> sd]
  ELSE [next |-> TRUE, sd |-> sd]

\* faulty guards: a request without a token passes / a GET request is
\* checked like any other
validateCSRF_AllowMissing(method, tok, sid, ss, sd) ==
  IF method = "GET" \/ tok = NoToken THEN [next |-> TRUE, sd |-> sd]
  ELSE IF sid # NoSid /\ SessionRows(ss, sid) # {}
  THEN IF Pinned(sd, sid) = NoToken
       THEN [next |-> TRUE, sd |-> sd \cup {[session_id |-> sid, value |-> tok]}]
       ELSE IF Pinned(sd, sid) # tok THEN [next |-> FALSE, sd |-> sd]
       ELSE [next |-> TRUE, sd |-> sd]
  ELSE [next |-> TRUE, sd |-> sd]

validateCSRF_NoGetExempt(method, tok, sid, ss, sd) ==
  IF tok = NoToken THEN [next |-> FALSE, sd |-> sd]
  ELSE IF sid # NoSid /\ SessionRows(ss, sid) # {}
  THEN IF Pinned(sd, sid) = NoToken
       THEN [next |-> TRUE, sd |-> sd \cup {[session_id |-> sid, value |-> tok]}]
       ELSE IF Pinned(sd, sid) # tok THEN [next |-> FALSE, sd |-> sd]
       ELSE [next |-> TRUE, sd |-> sd]
  ELSE [next |-> TRUE, sd |-> sd]

\* validateCSRF: whether it calls next(), and the session_data table it
\* leaves behind (the first token seen for a session is stored)
validateCSRF(method, tok, sid, ss, sd) ==
  IF method = "GET" THEN [next |-> TRUE, sd |-> sd]
  ELSE IF tok = NoToken THEN [next |-> FALSE, sd |-> sd]
  ELSE IF sid # NoSid /\ SessionRows(ss, sid) # {}
  THEN IF Pinned(sd, sid) = NoToken
       THEN [next |-> TRUE, sd |-> sd \cup {[session_id |-> sid, value |-> tok]}]
       ELSE IF Pinned(sd, sid) # tok THEN [next |-> FALSE, sd |-> sd]
       ELSE [next |-> TRUE, sd |-> sd]
  ELSE [next |-> TRUE, sd |-> sd]

\* validateEnhancedCSRF (defined by the server, mounted on no route), verdict
validateEnhancedCSRF(method, tok, cookieTok, sid, ss, sd) ==
  IF method = "GET" THEN TRUE
  ELSE IF tok = NoToken THEN FALSE
  ELSE IF cookieTok = NoToken THEN FALSE
  ELSE IF tok # cookieTok THEN FALSE
  ELSE validateCSRF(method, tok, sid, ss, sd).next

Step(kind, route, method, sid, tok, auth, csrf, status, ran, uid, pwOk, setSid) ==
  [kind |-> kind, route |-> route, method |-> method, sid |-> sid, tok |-> tok,
   auth |-> auth, csrf |-> csrf, status |-> status, ran |-> ran, uid |-> uid,
   pwOk |-> pwOk, setSid |-> setSid, pw |-> NoText, newpw |-> NoText, error |-> NoText]

\* the step record with the passwords the handler read from the body / with
\* the error text of the response
WithPasswords(step, pw, newpw) == [step EXCEPT !.pw = pw, !.newpw = newpw]
WithError(step, error) == [step EXCEPT !.error = error]

\* how a gate ended, as the step record keeps it
AuthTag(ok) == IF ok THEN "ok" ELSE "401"
CsrfTag(g, sd) == IF ~g.next THEN "403" ELSE IF g.sd # sd THEN "stored" ELSE "ok"

\* ------------------------------------------------------------------- actions
\* the clock advances: within the day, or to the start of the next day
Tick ==
  /\ \/ /\ now.tod < MaxTod
        /\ now' = [now EXCEPT !.tod = now.tod + 1]
     \/ /\ now.day < MaxDay
        /\ now' = [day |-> now.day + 1, tod |-> 0]
  /\ last' = NoStep
  /\ UNCHANGED <<extra, client, shop, browser, users, sessions, session_data, owner, saltCount, issued, inflight,
                 cpMark, loggedOut, pwChange>>

\* GET /api/csrf-token
CsrfToken ==
  \E t \in Tokens :
    /\ issued' = t
    /\ last' = Step("arrive", "csrf", "GET", NoSid, NoToken, "none", "none", 200, TRUE,
                    NoUser, FALSE, NoSid)
    /\ UNCHANGED <<extra, client, shop, browser, users, sessions, session_data, owner, saltCount, now, inflight,
                   cpMark, loggedOut, pwChange>>

\* GET /api/auth/user
GetUserRequest(sid) ==
  LET ok == isAuthenticated(sessions, sid, now)
      uid == ReqUser(sessions, sid, now)
  IN /\ last' = Step("arrive", "user", "GET", sid, NoToken, AuthTag(ok), "none",
                     IF ok THEN 200 ELSE 401, ok, uid, FALSE, NoSid)
     /\ UNCHANGED <<extra, users, sessions, session_data, owner, saltCount, now, issued,
                    inflight, cpMark, loggedOut, pwChange>>

\* GET /api/auth/user of any sender
GetUser ==
  \E sid \in Cookies :
    /\ GetUserRequest(sid)
    /\ UNCHANGED <<extra, client, shop, browser>>

\* faulty logout: the session row is left in place
LogoutDelete_KeepRow(ss, sid) == ss

\* DELETE FROM sessions WHERE session_id = ?   (logout)
LogoutDelete(ss, sid) == {r \in ss : r.session_id # sid}

\* POST /api/auth/logout: validateCSRF (app.use), isAuthenticated, handler
LogoutRequest(sid, tok) ==
  LET g     == validateCSRF("POST", tok, sid, sessions, session_data)
      cOk   == g.next
      sd1   == g.sd
      aOk   == cOk /\ isAuthenticated(sessions, sid, now)
      uid   == IF aOk THEN ReqUser(sessions, sid, now) ELSE NoUser
      ss2   == IF aOk THEN LogoutDelete(sessions, sid) ELSE sessions
  IN /\ sessions' = ss2
     /\ session_data' = Cascade(sd1, ss2)
     /\ last' = Step("arrive", "logout", "POST", sid, tok,
                     IF cOk THEN AuthTag(aOk) ELSE "none", CsrfTag(g, session_data),
                     IF ~cOk THEN 403 ELSE IF ~aOk THEN 401 ELSE 200,
                     aOk, uid, FALSE, NoSid)
     /\ loggedOut' = IF aOk THEN loggedOut \cup {sid} ELSE loggedOut
     /\ UNCHANGED <<extra, users, owner, saltCount, now, issued, inflight, cpMark, pwChange>>

\* POST /api/auth/logout of any sender
Logout ==
  \E sid \in Cookies, bh \in TokenInputs :
    /\ LogoutRequest(sid, RequestToken(bh[1], bh[2]))
    /\ UNCHANGED <<extra, client, shop, browser>>

\* /api/categories, /api/products: isAuthenticated, isAdmin (app.use),
\* validateCSRF (app.use), handler.  A GET request has no body; it may carry
\* the X-CSRF-Token header.
AdminRequest(method, sid, tok) ==
  LET aOk == isAuthenticated(sessions, sid, now)
      uid == ReqUser(sessions, sid, now)
      adm == aOk /\ isAdmin(uid)
      g   == validateCSRF(method, tok, sid, sessions, session_data)
      cOk == adm /\ g.next
  IN /\ session_data' = IF adm THEN g.sd ELSE session_data
     /\ last' = Step("arrive", "admin", method, sid, tok, AuthTag(aOk),
                     IF adm THEN CsrfTag(g, session_data) ELSE "none",
                     IF ~aOk THEN 401 ELSE IF ~adm THEN 403
                     ELSE IF ~cOk THEN 403 ELSE 200,
                     cOk, uid, FALSE, NoSid)
     /\ UNCHANGED <<extra, users, sessions, owner, saltCount, now, issued, inflight, cpMark,
                    loggedOut, pwChange>>

\* a request to /api/categories or /api/products of any sender
AdminRoute ==
  \E method \in {"GET", "POST"}, sid \in Cookies, bh \in TokenInputs :
    /\ (method = "GET" => bh[1] = NoToken)
    /\ AdminRequest(method, sid, RequestToken(bh[1], bh[2]))
    /\ UNCHANGED <<extra, client, shop, browser>>

\* SELECT * FROM users WHERE email = ?   (the set of matching users)
UsersByEmail(email) == {u \in Users : EmailOf(u) = email}

Suspend(q) == inflight (+) SetToBag({q})
Resume(q)  == inflight (-) SetToBag({q})

\* the error responses of the credential checks of POST /api/auth/login
LoginMissingFields == [status |-> 400, error |-> "Email and password are required"]

\* faulty response: the answer tells that the e-mail is not registered
LoginUnknownUser_Reveal == [status |-> 404, error |-> "User not found"]

LoginUnknownUser == [status |-> 401, error |-> "Invalid email or password"]
LoginBadPassword == [status |-> 401, error |-> "Invalid email or password"]

\* POST /api/auth/login up to `await verifyPassword(...)`:
\* validateCSRF, field check, user lookup.  The suspended request keeps the
\* verdict verifyPassword resolves to (its arguments are read before the
\* await), the user row it found and, when the verdict is true, the body
\* token it goes on to use.
LoginRequest(sid, body, header, email, password, inflightCap, sessionCap) ==
  LET tok   == RequestToken(body, header)
      g     == validateCSRF("POST", tok, sid, sessions, session_data)
      cOk   == g.next
      found == UsersByEmail(email)
      uid   == IF found # {} THEN CHOOSE u \in found : TRUE ELSE NoUser
      match == /\ uid # NoUser
               /\ verifyPassword(password, users[uid].password, users[uid].salt)
      answer == IF ~cOk THEN [status |-> 403, error |-> NoText]
                ELSE IF Missing(email) \/ Missing(password) THEN LoginMissingFields
                ELSE IF uid = NoUser THEN LoginUnknownUser
                ELSE [status |-> 0, error |-> NoText]
      status == answer.status
      seen   == status = 0
  IN /\ BagCardinality(inflight) < inflightCap
     /\ Len(owner) + BagCardinality(inflight) < sessionCap
     /\ session_data' = g.sd
     /\ inflight' = IF status # 0 THEN inflight
                    ELSE IF match
                    THEN Suspend(Suspended("login", uid, TRUE, body, password, NoText, 0))
                    ELSE Suspend(Suspended("login", uid, FALSE, NoToken, password, NoText,
                                           0))
     /\ last' = WithError(WithPasswords(
                     Step("arrive", "login", "POST", sid, tok, "none",
                          CsrfTag(g, session_data), status, cOk,
                          IF seen THEN uid ELSE NoUser, match, NoSid),
                     IF seen THEN password ELSE NoText, NoText), answer.error)
     /\ UNCHANGED <<extra, users, sessions, owner, saltCount, now, issued, cpMark, loggedOut,
                    pwChange>>

\* POST /api/auth/login of any sender, up to the await
LoginStart(inflightCap, sessionCap) ==
  \E sid \in Cookies, bh \in TokenInputs, email \in Emails \cup {NoText},
     password \in Passwords \cup {NoText} :
    /\ LoginRequest(sid, bh[1], bh[2], email, password, inflightCap, sessionCap)
    /\ UNCHANGED <<extra, client, shop, browser>>

\* faulty rotations: nothing is deleted / the other users' rows are deleted
DeleteUserSessions_KeepAll(ss, uid) == ss
DeleteUserSessions_Others(ss, uid) == {r \in ss : r.userid = uid}

\* DELETE FROM sessions WHERE userid = ?   (login: session rotation)
DeleteUserSessions(ss, uid) == {r \in ss : r.userid # uid}

\* INSERT INTO sessions (session_id, userid, expires_at) VALUES (?, ?, ?)
InsertSession(ss, sid, uid, t) ==
  ss \cup {[session_id |-> sid, userid |-> uid, expires_at |-> toISOString(ExpiryFrom(t))]}

\* if (csrf_token) INSERT INTO session_data ... VALUES (sessionId, 'csrf_token', csrf_token)
LoginStoreCsrf(sd, sid, csrf) ==
  IF csrf # NoToken THEN sd \cup {[session_id |-> sid, value |-> csrf]} ELSE sd

\* faulty login: the user's sessions are deleted before the verdict of the
\* password verification is looked at
LoginFinish_RotateFirst ==
  \E q \in BagToSet(inflight) :
    LET newId == Len(owner) + 1
        kept  == DeleteUserSessions(sessions, q.uid)
    IN /\ q.pc = "login"
       /\ inflight' = Resume(q)
       /\ IF ~q.match
          THEN /\ sessions' = kept
               /\ session_data' = Cascade(session_data, kept)
               /\ last' = WithError(WithPasswords(
                               Step("finish", "login", "POST", NoSid, NoToken, "none",
                                    "none", LoginBadPassword.status, TRUE, q.uid, FALSE,
                                    NoSid),
                               q.pw, NoText), LoginBadPassword.error)
               /\ UNCHANGED owner
          ELSE /\ sessions' = InsertSession(kept, newId, q.uid, now)
               /\ session_data' = LoginStoreCsrf(Cascade(session_data, kept), newId, q.csrf)
               /\ owner' = Append(owner, q.uid)
               /\ last' = WithPasswords(
                               Step("finish", "login", "POST", NoSid, q.csrf, "none",
                                    "none", 200, TRUE, q.uid, TRUE, newId),
                               q.pw, NoText)
       /\ UNCHANGED <<extra, client, shop, browser, users, saltCount, now, issued, cpMark, loggedOut, pwChange>>

\* POST /api/auth/login after `await verifyPassword(...)`
LoginFinish ==
  \E q \in BagToSet(inflight) :
    LET newId == Len(owner) + 1
        kept  == DeleteUserSessions(sessions, q.uid)
    IN /\ q.pc = "login"
       /\ inflight' = Resume(q)
       /\ IF ~q.match
          THEN /\ last' = WithError(WithPasswords(
                               Step("finish", "login", "POST", NoSid, NoToken, "none",
                                    "none", LoginBadPassword.status, TRUE, q.uid, FALSE,
                                    NoSid),
                               q.pw, NoText), LoginBadPassword.error)
               /\ UNCHANGED <<extra, client, shop, browser, sessions, session_data, owner>>
          ELSE /\ sessions' = InsertSession(kept, newId, q.uid, now)
               /\ session_data' = LoginStoreCsrf(Cascade(session_data, kept), newId, q.csrf)
               /\ owner' = Append(owner, q.uid)
               /\ last' = WithPasswords(
                               Step("finish", "login", "POST", NoSid, q.csrf, "none",
                                    "none", 200, TRUE, q.uid, TRUE, newId),
                               q.pw, NoText)
       /\ UNCHANGED <<extra, client, shop, browser, users, saltCount, now, issued, cpMark, loggedOut, pwChange>>

\* suspended change-password requests that have not generated their salt yet
AwaitingSalt ==
  BagCardinality([q \in {x \in BagToSet(inflight) : x.pc = "cp_verify"} |->
                    CopiesIn(q, inflight)])

\* POST /api/auth/change-password up to `await verifyPassword(...)`:
\* validateCSRF (app.use), isAuthenticated, field checks, user lookup.
\* (The body's password fields are read only once both gates have passed.)
ChangePasswordStart(inflightCap, saltCap) ==
  \E sid \in Cookies, bh \in TokenInputs :
    LET tok == RequestToken(bh[1], bh[2])
        g   == validateCSRF("POST", tok, sid, sessions, session_data)
        cOk == g.next
        aOk == cOk /\ isAuthenticated(sessions, sid, now)
        uid == IF aOk THEN ReqUser(sessions, sid, now) ELSE NoUser
    IN /\ BagCardinality(inflight) < inflightCap
       /\ saltCount + AwaitingSalt < saltCap
       /\ session_data' = g.sd
       /\ IF ~aOk
          THEN /\ inflight' = inflight
               /\ last' = Step("arrive", "cp", "POST", sid, tok,
                               IF cOk THEN "401" ELSE "none", CsrfTag(g, session_data),
                               IF cOk THEN 401 ELSE 403, FALSE, NoUser, FALSE, NoSid)
          ELSE \E currentPassword \in Passwords \cup {NoText},
                  newPassword \in Passwords \cup {NoText} :
                 LET match == verifyPassword(currentPassword, users[uid].password,
                                             users[uid].salt)
                     status == IF Missing(currentPassword) \/ Missing(newPassword)
                               THEN 400
                               ELSE IF PwLength(newPassword) < MinPasswordLen THEN 400
                               ELSE 0
                 IN /\ inflight' =
                         IF status # 0 THEN inflight
                         ELSE IF match
                         THEN Suspend(Suspended("cp_verify", uid, TRUE, NoToken,
                                                currentPassword, newPassword, 0))
                         ELSE Suspend(Suspended("cp_verify", uid, FALSE, NoToken,
                                                NoText, NoText, 0))
                    /\ last' = WithPasswords(
                                    Step("arrive", "cp", "POST", sid, tok, "ok",
                                         CsrfTag(g, session_data), status, TRUE, uid,
                                         match, NoSid),
                                    currentPassword, newPassword)
       /\ UNCHANGED <<extra, client, shop, browser, users, sessions, owner, saltCount, now, issued, cpMark,
                      loggedOut, pwChange>>

\* change-password between `await verifyPassword(...)` and `await hashPassword(...)`
ChangePasswordVerified ==
  \E q \in BagToSet(inflight) :
    /\ q.pc = "cp_verify"
    /\ IF ~q.match
       THEN /\ inflight' = Resume(q)
            /\ last' = Step("finish", "cp", "POST", NoSid, NoToken, "none", "none",
                            401, TRUE, q.uid, FALSE, NoSid)
            /\ UNCHANGED saltCount
       ELSE /\ saltCount' = saltCount + 1
            /\ inflight' = Resume(q) (+)
                 SetToBag({Suspended("cp_hash", q.uid, TRUE, NoToken, q.pw, q.newpw,
                                     saltCount + 1)})
            /\ last' = NoStep
    /\ UNCHANGED <<extra, client, shop, browser, users, sessions, session_data, owner, now, issued, cpMark,
                   loggedOut, pwChange>>

\* UPDATE users SET password = ?, salt = ? WHERE userid = ?
UpdatePassword(us, uid, newHash, newSalt) ==
  [us EXCEPT ![uid] = [password |-> newHash, salt |-> newSalt]]

\* faulty revocation: the sessions survive the password change
RevokeUserSessions_KeepAll(ss, uid) == ss

\* DELETE FROM sessions WHERE userid = ?   (change-password: revoke all)
RevokeUserSessions(ss, uid) == {r \in ss : r.userid # uid}

\* change-password after `await hashPassword(newPassword, newSalt)`
ChangePasswordFinish ==
  \E q \in BagToSet(inflight) :
    LET kept == RevokeUserSessions(sessions, q.uid)
    IN /\ q.pc = "cp_hash"
       /\ users' = UpdatePassword(users, q.uid, hashPassword(q.newpw, q.newsalt), q.newsalt)
       /\ sessions' = kept
       /\ session_data' = Cascade(session_data, kept)
       /\ cpMark' = [cpMark EXCEPT ![q.uid] = Len(owner)]
       /\ pwChange' = [pwChange EXCEPT ![q.uid] = [old |-> q.pw, new |-> q.newpw]]
       /\ inflight' = Resume(q)
       /\ last' = WithPasswords(
                       Step("finish", "cp", "POST", NoSid, NoToken, "none", "none",
                            200, TRUE, q.uid, TRUE, NoSid),
                       q.pw, q.newpw)
       /\ UNCHANGED <<extra, client, shop, browser, owner, saltCount, now, issued, loggedOut>>

\* faulty catch of the session gate: a failed query is answered like a
\* missing session
isAuthenticatedCatch_401 == [status |-> 401, error |-> "Session expired or invalid"]

\* isAuthenticated: catch (err) { res.status(500).json(...) }
isAuthenticatedCatch == [status |-> 500, error |-> "Internal server error"]

\* the error-handling middleware, for an error that is not a MulterError
errorMiddleware == [status |-> 500, error |-> "Something went wrong"]

\* A request whose session lookup fails: querySingle throws 'Database
\* operation failed' in the session query of isAuthenticated, which catches
\* it, or in the session query of validateCSRF, which does not (Express hands
\* the exception to the error-handling middleware).  The gates mounted before
\* the failing one have run as usual.
QuerySingleThrows ==
  \E route \in {"user", "logout", "cp", "admin", "login"}, method \in {"GET", "POST"},
     sid \in Cookies \ {NoSid}, bh \in TokenInputs,
     failAt \in {"isAuthenticated", "validateCSRF"} :
    LET tok     == RequestToken(bh[1], bh[2])
        aOk     == isAuthenticated(sessions, sid, now)
        adm     == aOk /\ isAdmin(ReqUser(sessions, sid, now))
        g       == validateCSRF(method, tok, sid, sessions, session_data)
        \* validateCSRF reads the session: a non-GET request with a token and a cookie
        queried == method # "GET" /\ tok # NoToken
        first   == route \in {"logout", "cp"}
        answer  == IF failAt = "isAuthenticated" THEN isAuthenticatedCatch
                   ELSE errorMiddleware
    IN /\ (route = "user") = (method = "GET" /\ bh = <<NoToken, NoToken>>)
       /\ route \in {"logout", "cp", "login"} => method = "POST"
       /\ method = "GET" => bh[1] = NoToken
       /\ IF failAt = "isAuthenticated"
          THEN route # "login" /\ (first => g.next)
          ELSE route # "user" /\ queried /\ (route = "admin" => adm)
       /\ session_data' = IF failAt = "isAuthenticated" /\ first THEN g.sd
                          ELSE session_data
       /\ last' = WithError(
                    Step("fault", route, method, sid, tok,
                         IF failAt = "isAuthenticated" THEN "threw"
                         ELSE IF route = "admin" THEN "ok" ELSE "none",
                         IF failAt = "validateCSRF" THEN "threw"
                         ELSE IF first THEN CsrfTag(g, session_data) ELSE "none",
                         answer.status, FALSE, NoUser, FALSE, NoSid),
                    answer.error)
       /\ UNCHANGED <<extra, client, shop, browser, users, sessions, owner, saltCount, now, issued, inflight, cpMark,
                      loggedOut, pwChange>>

\* ------------------------------------------------------ actions of the pages
\* the state of the server, which the cart code of the pages does not touch
server == <<users, sessions, session_data, owner, saltCount, now, issued, inflight,
            cpMark, loggedOut, pwChange, last>>

\* The browser shows one page at a time; loading a page discards the memory
\* of the page before it.
\* DOMContentLoaded of a page with cart.js: window.shoppingCart = new ShoppingCart()
NewShoppingCart ==
  /\ page' = "cart.js"
  /\ items' = loadFromStorage(<<>>, storage)
  /\ cart' = <<>>
  /\ UNCHANGED <<extra, server, shop, browser, storage>>

\* cart.js, click on an Add to Cart button: ShoppingCart.handleAddToCart
handleAddToCart ==
  \E b \in Buttons :
    LET i == FindByPid(items, b.id)
    IN /\ page = "cart.js"
       /\ i # 0 => items[i].qty < MaxQty
       /\ IF Truthy(b.id) /\ Truthy(b.name) /\ b.price # 0
          THEN /\ items' = addItem(items, b.id, b.name, b.price, 1)
               /\ storage' = saveToStorage(storage, items')
          ELSE UNCHANGED <<extra, items, storage>>
       /\ UNCHANGED <<extra, server, shop, browser, page, cart>>

\* cart.js, change of a quantity input: attachQuantityControlListeners
QtyInputChange ==
  \E i \in 1 .. Len(items), v \in QtyValues :
    LET pid    == items[i].pid
        newQty == parseInt(v)
    IN /\ page = "cart.js"
       /\ IF ~newQty.nan /\ Truthy(pid)
          THEN /\ items' = updateItemQty(items, pid, newQty.n)
               /\ storage' = saveToStorage(storage, items')
          ELSE UNCHANGED <<extra, items, storage>>
       /\ UNCHANGED <<extra, server, shop, browser, page, cart>>

\* cart.js, click on a - or + button: attachQuantityControlListeners
QtyButton ==
  \E i \in 1 .. Len(items), step \in {0 - 1, 1} :
    LET pid == items[i].pid
    IN /\ page = "cart.js"
       /\ items[i].qty + step <= MaxQty
       /\ IF Truthy(pid)
          THEN /\ items' = updateItemQty(items, pid, items[i].qty + step)
               /\ storage' = saveToStorage(storage, items')
          ELSE UNCHANGED <<extra, items, storage>>
       /\ UNCHANGED <<extra, server, shop, browser, page, cart>>

\* part_002 window.addItemToCart / part_009 addItemToCart on a page that has
\* a ShoppingCart: addItem with the item's pid, or with the fallback pid of
\* its name; nothing is saved
windowAddItemToCart ==
  \E b \in Buttons :
    LET pid == IF Truthy(b.id) THEN b.id ELSE FallbackPid(b.name)
        i   == FindByPid(items, pid)
    IN /\ page = "cart.js"
       /\ i # 0 => items[i].qty < MaxQty
       /\ items' = addItem(items, pid, b.name, b.price, 1)
       /\ UNCHANGED <<extra, server, shop, browser, page, cart, storage>>

\* DOMContentLoaded of a page with scripts.js: let cart = loadCart()
ScriptsLoadCart ==
  /\ page' = "scripts.js"
  /\ cart' = loadCart(storage)
  /\ items' = <<>>
  /\ UNCHANGED <<extra, server, shop, browser, storage>>

\* scripts.js, click on an Add to Cart button
ScriptsAddToCart ==
  \E b \in Buttons :
    LET i == FindByName(cart, b.name)
    IN /\ page = "scripts.js"
       /\ i # 0 => cart[i].qty < MaxQty
       /\ IF Truthy(b.name) /\ b.price # 0
          THEN /\ cart' = addItemToCart(cart, [name |-> b.name, price |-> b.price, qty |-> 1])
               /\ storage' = saveCart(storage, cart')
          ELSE UNCHANGED <<extra, cart, storage>>
       /\ UNCHANGED <<extra, server, shop, browser, page, items>>

\* scripts.js, change of a quantity input: attachCartQuantityListeners
ScriptsQtyChange ==
  \E i \in 1 .. Len(cart), v \in QtyValues :
    LET itemName == cart[i].name
        newQty   == parseInt(v)
        keep(it) == it.name # itemName
    IN /\ page = "scripts.js"
       /\ IF ~newQty.nan
          THEN /\ cart' = IF newQty.n = 0 THEN SelectSeq(cart, keep)
                          ELSE [j \in 1 .. Len(cart) |->
                                  IF cart[j].name = itemName
                                  THEN [cart[j] EXCEPT !.qty = newQty.n] ELSE cart[j]]
               /\ storage' = saveCart(storage, cart')
          ELSE UNCHANGED <<extra, cart, storage>>
       /\ UNCHANGED <<extra, server, shop, browser, page, items>>

\* -------------------------------------------------------- the checkout page
\* DOMContentLoaded of checkout.html, which runs cart.js and checkout.js: the
\* cart is read from storage, the form's token is empty until loadCSRFToken
\* has its answer
CheckoutPageLoad ==
  /\ page' = "checkout.js"
  /\ items' = loadFromStorage(<<>>, storage)
  /\ cart' = <<>>
  /\ checkout' = NoCheckout
  /\ UNCHANGED <<extra, server, browser, storage, catalog, orders, reply>>

\* checkout.js loadCSRFToken, with the GET /api/csrf-token that answers it:
\* the server sets the csrf_token cookie, the page sets the form's input
loadCSRFToken ==
  \E t \in Tokens :
    /\ page = "checkout.js"
    /\ checkout.token = NoToken
    /\ issued' = t
    /\ checkout' = [checkout EXCEPT !.token = t]
    /\ last' = Step("arrive", "csrf", "GET", NoSid, NoToken, "none", "none", 200, TRUE,
                    NoUser, FALSE, NoSid)
    /\ UNCHANGED <<extra, client, browser, users, sessions, session_data, owner, saltCount, now,
                   inflight, cpMark, loggedOut, pwChange, catalog, orders, reply>>

\* faulty handleCheckout: the button is left enabled while the request is
\* under way
handleCheckout_NoDisable ==
  /\ page = "checkout.js"
  /\ ~checkout.disabled
  /\ checkout' = [checkout EXCEPT
                    !.request = [items |-> cartData(items), csrf_token |-> checkout.token,
                                 sent |-> TRUE]]
  /\ UNCHANGED <<extra, server, client, browser, catalog, orders, reply>>

\* checkout.js handleCheckout, from the click to the fetch: the button is
\* disabled and the request is sent
handleCheckout ==
  /\ page = "checkout.js"
  /\ ~checkout.disabled
  /\ checkout' = [checkout EXCEPT
                    !.disabled = TRUE,
                    !.request = [items |-> cartData(items), csrf_token |-> checkout.token,
                                 sent |-> TRUE]]
  /\ UNCHANGED <<extra, server, client, browser, catalog, orders, reply>>

\* POST /api/orders/create for the request of the checkout page
OrdersCreate ==
  LET res == ordersCreate(catalog, orders, checkout.request, issued)
  IN /\ checkout.request.sent
     /\ checkout.status = 0
     /\ Len(orders) < MaxOrders
     /\ orders' = res.orders
     /\ reply' = [request |-> checkout.request, status |-> res.status,
                  orderId |-> res.orderId]
     /\ checkout' = [checkout EXCEPT
                       !.status = res.status,
                       !.response = IF res.status = 201
                                    THEN res.orders[res.orderId].items ELSE <<>>]
     /\ UNCHANGED <<extra, server, client, browser, catalog>>

\* POST /api/orders/create for a request that no page built: lines with a
\* price of the sender's choice, unknown product ids, quantities below 1
OrdersCreateForged ==
  \E n \in 1 .. 2, tok \in {NoToken, issued} :
    \E lines \in [1 .. n -> [pid : {<<"1">>, <<"9">>}, quantity : {0, 1}, price : {1}]] :
      LET req == [items |-> lines, csrf_token |-> tok, sent |-> TRUE]
          res == ordersCreate(catalog, orders, req, issued)
      IN /\ Len(orders) < MaxOrders
         /\ orders' = res.orders
         /\ reply' = [request |-> req, status |-> res.status, orderId |-> res.orderId]
         /\ UNCHANGED <<extra, server, client, browser, catalog, checkout>>

\* checkout.js handleCheckout, after the fetch: an order answer fills the
\* form by generatePayPalItemFields(orderData.items) and submits it to the
\* payment processor, any other answer re-enables the button
handleCheckoutResume ==
  /\ checkout.request.sent
  /\ checkout.status # 0
  /\ checkout' = IF checkout.status \in 200 .. 299
                 THEN [checkout EXCEPT !.request = NoRequest, !.status = 0,
                                       !.submitted = TRUE,
                                       !.fields = generatePayPalItemFields(checkout.response, 0)]
                 ELSE [checkout EXCEPT !.request = NoRequest, !.status = 0,
                                       !.disabled = FALSE]
  /\ UNCHANGED <<extra, server, client, browser, catalog, orders, reply>>

\* ------------------------------------------------- the pages of one browser
\* part_001 initLoginPage, DOMContentLoaded of login.html: generateCSRFToken
\* makes up a token, stores it under 'csrf_token' and sets the form's input
initLoginPage ==
  \E t \in Tokens :
    /\ page' = "login.html"
    /\ items' = <<>>
    /\ cart' = <<>>
    /\ storage' = localStorageSetItem(storage, "csrf_token", t)
    /\ browser' = [browser EXCEPT !.form = t, !.button = FALSE, !.await = "none",
                                  !.fetch = NoFetch, !.done = "none"]
    /\ UNCHANGED <<extra, server, shop>>

\* part_001 handleLogin, from the submit to the fetch, with POST
\* /api/auth/login up to its await: the form's token goes into the body and
\* the header
handleLogin ==
  \E email \in Emails, password \in Passwords :
    /\ page = "login.html"
    /\ browser.await = "none"
    /\ LoginRequest(browser.session_id, browser.form, browser.form, email, password,
                    ClockInflight, MaxSessions)
    /\ browser' = [browser EXCEPT
                     !.await = "login",
                     !.fetch = [route |-> "login", tok |-> browser.form, cookie |-> issued],
                     !.done = "none"]
    /\ UNCHANGED <<extra, client, shop>>

\* part_001 handleLogin, after the fetch: the browser keeps the session_id
\* cookie of a 200 answer, the page stores data.user and leaves
handleLoginResume ==
  /\ page = "login.html"
  /\ browser.await = "login"
  /\ inflight = EmptyBag
  /\ IF last.status = 200
     THEN /\ storage' = localStorageSetItem(storage, "user", last.uid)
          /\ page' = "none"
          /\ browser' = [browser EXCEPT !.session_id = last.setSid, !.await = "none",
                                        !.done = "login"]
     ELSE /\ browser' = [browser EXCEPT !.await = "none", !.done = "login"]
          /\ UNCHANGED <<extra, storage, page>>
  /\ UNCHANGED <<extra, server, shop, items, cart>>

\* the page after checkAuthentication / checkUserAuth: without a stored user
\* no request is made; with one, GET /api/auth/user decides whether the
\* logout button is shown or the stored user is removed
AuthCheck(script, redirects, rewrites) ==
  LET ok == isAuthenticated(sessions, browser.session_id, now)
      shown == storage["user"].set /\ ok
  IN /\ page' = IF shown \/ ~redirects THEN script ELSE "none"
     /\ items' = <<>>
     /\ cart' = <<>>
     /\ browser' = [browser EXCEPT !.button = shown, !.await = "none", !.fetch = NoFetch,
                                   !.done = "none"]
     /\ IF ~storage["user"].set
        THEN UNCHANGED <<extra, server, storage>>
        ELSE /\ GetUserRequest(browser.session_id)
             /\ storage' = IF ~ok THEN localStorageRemoveItem(storage, "user")
                           ELSE IF rewrites
                           THEN localStorageSetItem(storage, "user",
                                                    ReqUser(sessions, browser.session_id, now))
                           ELSE storage
     /\ UNCHANGED <<extra, shop>>

\* auth.js checkAuthentication, DOMContentLoaded of a page with auth.js
checkAuthentication == AuthCheck("auth.js", TRUE, FALSE)

\* part_008 checkUserAuth, DOMContentLoaded of a page with that script
checkUserAuth == AuthCheck("part_008", FALSE, TRUE)

\* handleLogout of auth.js and of part_008, with the POST /api/auth/logout it
\* awaits: the token is read from localStorage, the answer's status is not
\* looked at, the stored user is removed and the page leaves
handleLogout ==
  LET v   == localStorageGetItem(storage, "csrf_token")
      tok == RequestToken(BodyToken(v), HeaderText(v))
  IN /\ page \in {"auth.js", "part_008"}
     /\ browser.button
     /\ LogoutRequest(browser.session_id, tok)
     /\ storage' = IF page = "auth.js"
                   THEN localStorageRemoveItem(localStorageRemoveItem(storage, "user"),
                                               "csrf_token")
                   ELSE localStorageRemoveItem(storage, "user")
     /\ page' = "none"
     /\ browser' = [browser EXCEPT
                      !.session_id = IF last'.status = 200 THEN NoSid ELSE @,
                      !.button = FALSE,
                      !.fetch = [route |-> "logout", tok |-> tok, cookie |-> issued],
                      !.done = "logout"]
     /\ UNCHANGED <<extra, shop, items, cart>>

\* csrf-utils.js DOMContentLoaded, csrfUtils.initialize: the stored token if
\* there is one, else the token of GET /api/csrf-token, which is stored
csrfUtilsInitialize ==
  /\ page' = "csrf-utils.js"
  /\ items' = <<>>
  /\ cart' = <<>>
  /\ browser' = [browser EXCEPT !.button = FALSE, !.await = "none", !.fetch = NoFetch,
                                !.done = "none"]
  /\ IF storage["csrf_token"].set
     THEN UNCHANGED <<extra, server, storage>>
     ELSE \E t \in Tokens :
            /\ issued' = t
            /\ storage' = localStorageSetItem(storage, "csrf_token", t)
            /\ last' = Step("arrive", "csrf", "GET", NoSid, NoToken, "none", "none", 200,
                            TRUE, NoUser, FALSE, NoSid)
            /\ UNCHANGED <<extra, users, sessions, session_data, owner, saltCount, now, inflight,
                           cpMark, loggedOut, pwChange>>
  /\ UNCHANGED <<extra, shop>>

\* csrfUtils.safeFetch of a POST to /api/categories or /api/products:
\* getToken reads the stored token, addTokenToRequest sets header and body
safeFetch ==
  LET v == localStorageGetItem(storage, "csrf_token")
  IN /\ page = "csrf-utils.js"
     /\ ~v.null
     /\ AdminRequest("POST", browser.session_id, RequestToken(v.text, v.text))
     /\ browser' = [browser EXCEPT
                      !.fetch = [route |-> "admin", tok |-> v.text, cookie |-> issued],
                      !.done = "admin"]
     /\ UNCHANGED <<extra, client, shop>>

\* part_003 DOMContentLoaded and loadUserOrders: GET /api/auth/user, and for
\* a user GET /api/csrf-token, whose token goes into the header of a GET
loadUserOrders ==
  /\ page' = "part_003"
  /\ items' = <<>>
  /\ cart' = <<>>
  /\ browser' = [browser EXCEPT !.button = FALSE, !.await = "none", !.fetch = NoFetch,
                                !.done = "none"]
  /\ IF isAuthenticated(sessions, browser.session_id, now)
     THEN \E t \in Tokens :
            /\ issued' = t
            /\ last' = Step("arrive", "csrf", "GET", NoSid, NoToken, "none", "none", 200,
                            TRUE, NoUser, FALSE, NoSid)
            /\ UNCHANGED <<extra, users, sessions, session_data, owner, saltCount, now, inflight,
                           cpMark, loggedOut, pwChange>>
     ELSE GetUserRequest(browser.session_id)
  /\ UNCHANGED <<extra, shop, storage>>

\* -------------------------------------------------- refreshProductDetails
\* cart.js DOMContentLoaded: new ShoppingCart(), then refreshProductDetails
\* up to its first await.  An empty cart returns at once; a cart with
\* nothing to fetch is saved at once.
DOMContentLoaded ==
  LET loaded == loadFromStorage(<<>>, storage)
      pids   == [i \in 1 .. Len(loaded) |-> loaded[i].pid]
      n      == NextFetch(pids, 1)
  IN /\ page' = "cart.js"
     /\ items' = loaded
     /\ cart' = <<>>
     /\ IF Len(loaded) = 0 \/ n.threw
        THEN /\ refresh' = [NoRefresh EXCEPT !.step = "start", !.left = loaded]
             /\ UNCHANGED storage
        ELSE IF n.k > Len(pids)
        THEN /\ refresh' = [NoRefresh EXCEPT !.pids = pids, !.step = "start", !.left = loaded]
             /\ storage' = saveToStorage(storage, loaded)
        ELSE /\ refresh' = [active |-> TRUE, pids |-> pids, k |-> n.k, step |-> "start",
                          left |-> loaded]
             /\ UNCHANGED storage
     /\ UNCHANGED <<server, shop, browser, other, inventory>>

\* refreshProductDetails, from the answer of the fetch it awaits to its next
\* await or its end: GET /api/frontend/products/:id answers ok for a product
\* of the catalog, the fetch may also fail
refreshProductDetails ==
  \E answered \in BOOLEAN :
    LET pid  == refresh.pids[refresh.k]
        ok   == answered /\ pid \in DOMAIN catalog
        its1 == IF ok THEN refreshItem(items, pid, catalog[pid]) ELSE items
        n    == NextFetch(refresh.pids, refresh.k + 1)
    IN /\ page = "cart.js"
       /\ refresh.active
       /\ items' = its1
       /\ IF n.threw
          THEN /\ refresh' = [refresh EXCEPT !.active = FALSE, !.step = "answer",
                                           !.left = its1]
               /\ UNCHANGED storage
          ELSE IF n.k > Len(refresh.pids)
          THEN /\ refresh' = [refresh EXCEPT !.active = FALSE, !.k = n.k, !.step = "answer",
                                           !.left = its1]
               /\ storage' = saveToStorage(storage, its1)
          ELSE /\ refresh' = [refresh EXCEPT !.k = n.k, !.step = "answer", !.left = its1]
               /\ UNCHANGED storage
       /\ UNCHANGED <<server, shop, browser, other, inventory, page, cart>>

\* ------------------------------------------------------------------ two tabs
\* the user turns to the browser's other tab: each tab has its page and its
\* carts in memory, localStorage is the same for both
SwitchTab ==
  /\ page' = other.page
  /\ items' = other.items
  /\ cart' = other.cart
  /\ other' = [page |-> page, items |-> items, cart |-> cart]
  /\ UNCHANGED <<server, shop, browser, storage, refresh, inventory>>

\* ------------------------------------------------- the admin's catalog routes
\* The requests below are those of an admin that passed isAuthenticated,
\* isAdmin and validateCSRF; any other request is answered before its route.
\* POST /api/categories; the empty name stands for one that fails validateInput
CategoriesPost ==
  \E name \in {"Fruit", "Drinks", ""} :
    /\ inventory.lastCatid < MaxCatid
    /\ inventory' =
         IF name = "" THEN Answer(inventory, "POST /api/categories", 0, 400)
         ELSE Answer([inventory EXCEPT
                        !.categories = @ \cup {[catid |-> inventory.lastCatid + 1, name |-> name]},
                        !.lastCatid = @ + 1],
                     "POST /api/categories", inventory.lastCatid + 1, 201)
    /\ UNCHANGED <<server, client, shop, browser, refresh, other>>

\* PUT /api/categories/:id
CategoriesPut ==
  \E id \in 0 .. MaxCatid, name \in {"Fruit", "Drinks", ""} :
    /\ inventory' =
         IF ~ValidId(id) \/ name = "" THEN Answer(inventory, "PUT /api/categories/:id", id, 400)
         ELSE IF id \notin CatIds(inventory)
         THEN Answer(inventory, "PUT /api/categories/:id", id, 404)
         ELSE Answer([inventory EXCEPT
                        !.categories = {c \in @ : c.catid # id} \cup {[catid |-> id, name |-> name]}],
                     "PUT /api/categories/:id", id, 200)
    /\ UNCHANGED <<server, client, shop, browser, refresh, other>>

\* DELETE /api/categories/:id
CategoriesDelete ==
  \E id \in 0 .. MaxCatid :
    /\ inventory' = categoriesDelete(inventory, id)
    /\ UNCHANGED <<server, client, shop, browser, refresh, other>>

\* POST /api/products: the INSERT throws on an unknown category, which the
\* catch block answers with 500
ProductsPost ==
  \E catid \in 0 .. MaxCatid :
    /\ inventory.lastPid < MaxPid
    /\ inventory' =
         IF ~ValidId(catid) THEN Answer(inventory, "POST /api/products", 0, 400)
         ELSE IF ~ForeignKeyOk(inventory, catid)
         THEN Answer(inventory, "POST /api/products", 0, 500)
         ELSE Answer([inventory EXCEPT
                        !.products = @ \cup {[pid |-> inventory.lastPid + 1, catid |-> catid]},
                        !.lastPid = @ + 1],
                     "POST /api/products", inventory.lastPid + 1, 201)
    /\ UNCHANGED <<server, client, shop, browser, refresh, other>>

\* PUT /api/products/:id: with a new image the update waits for
\* resizeProductImage, without one it is made at once
ProductsPut ==
  \E id \in 0 .. MaxPid, catid \in 0 .. MaxCatid, file \in BOOLEAN :
    /\ file => Cardinality(inventory.pending) < MaxPending
    /\ inventory' =
         IF ~ValidId(id) \/ ~ValidId(catid)
         THEN Answer(inventory, "PUT /api/products/:id", id, 400)
         ELSE IF id \notin Pids(inventory)
         THEN Answer(inventory, "PUT /api/products/:id", id, 404)
         ELSE IF file
         THEN [inventory EXCEPT !.pending = @ \cup {[pid |-> id, catid |-> catid]}]
         ELSE updateProductInDatabase(inventory, id, catid)
    /\ UNCHANGED <<server, client, shop, browser, refresh, other>>

\* PUT /api/products/:id after resizeProductImage settled
ProductsPutResume ==
  \E u \in inventory.pending :
    /\ inventory' = updateProductInDatabase([inventory EXCEPT !.pending = @ \ {u}],
                                            u.pid, u.catid)
    /\ UNCHANGED <<server, client, shop, browser, refresh, other>>

\* DELETE /api/products/:id
ProductsDelete ==
  \E id \in 0 .. MaxPid :
    /\ inventory' =
         IF ~ValidId(id) THEN Answer(inventory, "DELETE /api/products/:id", id, 400)
         ELSE IF id \notin Pids(inventory)
         THEN Answer(inventory, "DELETE /api/products/:id", id, 404)
         ELSE Answer([inventory EXCEPT !.products = {p \in @ : p.pid # id}],
                     "DELETE /api/products/:id", id, 200)
    /\ UNCHANGED <<server, client, shop, browser, refresh, other>>

\* Concurrent requests within one unit of the clock.
Next ==
  \/ GetUser
  \/ Logout
  \/ AdminRoute
  \/ LoginStart(MaxInflight, MaxSessions)
  \/ LoginFinish
  \/ ChangePasswordStart(MaxInflight, MaxSalt)
  \/ ChangePasswordVerified
  \/ ChangePasswordFinish

Spec == Init /\ [][Next]_vars

\* Requests while the clock advances past the expiry of the sessions.  A
\* change-password request passes its gates here; its hashing outlasts the
\* behaviours of this specification.
NextClock ==
  \/ Tick
  \/ GetUser
  \/ Logout
  \/ AdminRoute
  \/ LoginStart(ClockInflight, ClockSessions)
  \/ LoginFinish
  \/ ChangePasswordStart(ClockInflight, MaxSalt)

SpecClock == Init /\ [][NextClock]_vars

\* Requests of a browser that fetches CSRF tokens from GET /api/csrf-token.
NextCsrf ==
  \/ CsrfToken
  \/ GetUser
  \/ Logout
  \/ AdminRoute
  \/ LoginStart(MaxInflight, MaxSessions)
  \/ LoginFinish

SpecCsrf == Init /\ [][NextCsrf]_vars

\* Requests of which some lose their session lookup to a failure of the store.
NextFault ==
  \/ QuerySingleThrows
  \/ GetUser
  \/ Logout
  \/ LoginStart(ClockInflight, MaxSessions)
  \/ LoginFinish

SpecFault == Init /\ [][NextFault]_vars

\* The carts of one browser: pages with cart.js and pages with scripts.js
\* over the same localStorage.
NextCart ==
  \/ NewShoppingCart
  \/ handleAddToCart
  \/ QtyInputChange
  \/ QtyButton
  \/ ScriptsLoadCart
  \/ ScriptsAddToCart
  \/ ScriptsQtyChange

SpecCart == Init /\ [][NextCart]_vars

\* The setup of a shop whose catalog is as created or has been repriced, and
\* a browser that comes to the checkout with one of the carts its pages
\* can have stored.
InitCheckout ==
  /\ users = [u \in Users |-> IF u = "admin"
                 THEN [password |-> hashPassword("adminabc", 1), salt |-> 1]
                 ELSE [password |-> hashPassword("user123", 2), salt |-> 2]]
  /\ sessions = {} /\ session_data = {} /\ owner = <<>> /\ saltCount = 2
  /\ now = [day |-> 0, tod |-> 0] /\ issued = NoToken /\ inflight = EmptyBag
  /\ cpMark = [u \in Users |-> 0] /\ loggedOut = {}
  /\ pwChange = [u \in Users |-> [old |-> NoText, new |-> NoText]]
  /\ last = NoStep
  /\ page = "none" /\ items = <<>> /\ cart = <<>>
  /\ storage \in {[k \in StorageKeys |-> IF k = "cart" THEN c ELSE NoValue] : c \in StoredCarts}
  /\ catalog \in {Catalog, Repriced}
  /\ orders = <<>> /\ checkout = NoCheckout /\ reply = NoReply
  /\ browser = NoBrowser
  /\ refresh = NoRefresh
  /\ other = NoTab
  /\ inventory = Inventory

\* A browser that checks out, and order requests sent without the page.
NextCheckout ==
  \/ CheckoutPageLoad
  \/ loadCSRFToken
  \/ handleCheckout
  \/ OrdersCreate
  \/ OrdersCreateForged
  \/ handleCheckoutResume

SpecCheckout == InitCheckout /\ [][NextCheckout]_vars

\* One session and the change-password requests sent with it, two of them
\* at a time.
NextChange ==
  \/ GetUser
  \/ LoginStart(ClockInflight, ClockSessions)
  \/ LoginFinish
  \/ ChangePasswordStart(MaxInflight, ChangeSalt)
  \/ ChangePasswordVerified
  \/ ChangePasswordFinish

SpecChange == Init /\ [][NextChange]_vars

\* One browser: its pages make the requests.
NextBrowser ==
  \/ initLoginPage
  \/ handleLogin
  \/ LoginFinish
  \/ handleLoginResume
  \/ checkAuthentication
  \/ checkUserAuth
  \/ handleLogout
  \/ csrfUtilsInitialize
  \/ safeFetch
  \/ loadUserOrders
  \/ CheckoutPageLoad
  \/ loadCSRFToken
  \/ handleCheckout

SpecBrowser == Init /\ [][NextBrowser]_vars

\* The pages with a ShoppingCart, from an empty cart.
NextItems ==
  \/ NewShoppingCart
  \/ handleAddToCart
  \/ windowAddItemToCart
  \/ QtyInputChange
  \/ QtyButton

SpecItems == Init /\ [][NextItems]_vars

\* A page with a ShoppingCart whose refresh is under way while the user
\* changes the cart.
NextRefresh ==
  \/ DOMContentLoaded
  \/ refreshProductDetails
  \/ handleAddToCart
  \/ QtyInputChange
  \/ QtyButton

SpecRefresh == InitCheckout /\ [][NextRefresh]_vars

\* Two tabs with a ShoppingCart each over one localStorage.
NextTabs ==
  \/ SwitchTab
  \/ NewShoppingCart
  \/ handleAddToCart
  \/ QtyInputChange
  \/ QtyButton

SpecTabs == Init /\ [][NextTabs]_vars

\* An admin who edits categories and products.
NextInventory ==
  \/ CategoriesPost
  \/ CategoriesPut
  \/ CategoriesDelete
  \/ ProductsPost
  \/ ProductsPut
  \/ ProductsPutResume
  \/ ProductsDelete

SpecInventory == Init /\ [][NextInventory]_vars

TypeOK ==
  /\ \A r \in sessions : r.session_id \in 1 .. Len(owner) /\ r.userid \in Users
  /\ \A d \in session_data : d.value \in Tokens
  /\ Len(owner) <= MaxSessions
  /\ saltCount <= ChangeSalt
  /\ BagCardinality(inflight) <= MaxInflight

\* =================================================================== claims
\* routes on which validateCSRF is mounted
ProtectedRoutes == {"login", "logout", "cp", "admin"}

\* the session rows of a user
RowsOf(ss, u) == {r \in ss : r.userid = u}

\* the step just taken is a successful login / a successful password change
LoginSucceeded == last.kind = "finish" /\ last.route = "login" /\ last.status = 200
ChangeSucceeded == last.kind = "finish" /\ last.route = "cp" /\ last.status = 200

\* an expires_at text lies in the past at instant t
Expired(r, t) == Before(InstantOf(r.expires_at), t)

\* C1: after every successful login of a user U, the sessions table holds
\* exactly one row of U, and it is the row that login created.
C1_SingleSession ==
  LoginSucceeded =>
    /\ RowsOf(sessions, last.uid) = SessionRows(sessions, last.setSid)
    /\ Cardinality(RowsOf(sessions, last.uid)) = 1

\* a second login of the same user has just succeeded
C1_Witness ==
  /\ LoginSucceeded
  /\ last.setSid = 2
  /\ owner[1] = last.uid

\* C2: under every interleaving of login requests suspended in password
\* hashing, no state holds two session rows of the same user.
C2_NoTwoSessions ==
  \A u \in Users : Cardinality(RowsOf(sessions, u)) <= 1

\* a login of u has just replaced u's session while another verified login
\* of u is still suspended
C2_Witness ==
  /\ LoginSucceeded
  /\ last.setSid = 1
  /\ \E q \in BagToSet(inflight) : q.pc = "login" /\ q.match /\ q.uid = last.uid

\* C3 (as claimed): whenever isAuthenticated runs on a request naming a
\* session whose expires_at lies before the current instant, it answers 401.
C3_ExpiredRejected ==
  [][(last'.kind = "arrive" /\ last'.auth # "none")
       => \A r \in SessionRows(sessions, last'.sid) :
            Expired(r, now) => last'.auth = "401"]_vars

\* C4 (as claimed): a non-GET request to a protected route whose csrf_token
\* cookie differs from the token it supplies is rejected.
C4_DoubleSubmit ==
  (/\ last.kind = "arrive"
   /\ last.method # "GET"
   /\ last.route \in ProtectedRoutes
   /\ issued # NoToken
   /\ last.tok # NoToken
   /\ last.tok # issued)
  => ~last.ran

\* C5 (as claimed): a non-GET request reaches the handler of a protected
\* route only with the token GET /api/csrf-token issued most recently.
C5_IssuedTokenOnly ==
  (/\ last.kind = "arrive"
   /\ last.method # "GET"
   /\ last.route \in ProtectedRoutes
   /\ last.ran)
  => (issued # NoToken /\ last.tok = issued)

\* C6: a csrf_token row stays as it is for as long as its session row
\* exists, and no session has two csrf_token rows.
C6_FirstWriteWins ==
  /\ [][\A d \in session_data :
          (\E r \in sessions' : r.session_id = d.session_id) => d \in session_data']_vars
  /\ [](\A d1, d2 \in session_data : d1.session_id = d2.session_id => d1 = d2)

\* a logout naming a Bound session with another token was just refused and
\* the pinned value is still in place
C6_Witness ==
  /\ last.kind = "arrive"
  /\ last.route = "logout"
  /\ last.csrf = "403"
  /\ last.tok # NoToken
  /\ SessionRows(sessions, last.sid) # {}
  /\ Pinned(session_data, last.sid) \notin {NoToken, last.tok}

\* the case C7 is about: a non-GET request to a protected route names a
\* Bound session and presents a token other than the pinned one
MismatchArrives ==
  /\ last'.kind = "arrive"
  /\ last'.method # "GET"
  /\ last'.route \in ProtectedRoutes
  /\ SessionRows(sessions, last'.sid) # {}
  /\ last'.tok # NoToken
  /\ Pinned(session_data, last'.sid) \notin {NoToken, last'.tok}

\* C7 (as claimed): such a request is answered 403 and the handler does not run.
C7_MismatchIs403 ==
  [][MismatchArrives => (last'.status = 403 /\ ~last'.ran)]_vars

\* C7 (amended): such a request never reaches the handler; it is answered
\* 403, except that an admin route answers 401 when the session gate, which
\* runs before the CSRF guard there, does not accept the session.
C7_MismatchRejected ==
  [][MismatchArrives =>
       /\ ~last'.ran
       /\ \/ last'.status = 403
          \/ /\ last'.status = 401
             /\ last'.route = "admin"
             /\ ~isAuthenticated(sessions, last'.sid, now)]_vars

\* the CSRF guard has just refused a request whose token differs from the
\* one pinned to the session it names
C7_Witness ==
  /\ last.kind = "arrive"
  /\ last.status = 403
  /\ last.csrf = "403"
  /\ last.tok # NoToken
  /\ SessionRows(sessions, last.sid) # {}
  /\ Pinned(session_data, last.sid) \notin {NoToken, last.tok}

\* the case C8 is about: a non-GET request carrying a token names a session
\* row that has no csrf_token row
UnboundArrives ==
  /\ last'.kind = "arrive"
  /\ last'.method # "GET"
  /\ SessionRows(sessions, last'.sid) # {}
  /\ Pinned(session_data, last'.sid) = NoToken
  /\ last'.tok # NoToken

\* the guard accepted the request and its token is the session's pinned
\* token (for as long as the request leaves the session in place)
PinnedByStep ==
  /\ last'.csrf \in {"ok", "stored"}
  /\ SessionRows(sessions', last'.sid) # {}
       => Pinned(session_data', last'.sid) = last'.tok

\* a session created by a login whose body carried a token is Bound to it
BoundAtLogin ==
  (LoginSucceeded /\ last.tok # NoToken)
    => Pinned(session_data, last.setSid) = last.tok

\* C8 (as claimed): every such request is accepted by the CSRF guard and pins
\* its token; a login with a body token creates a session Bound to it.
C8_FirstRequestPins ==
  /\ [][UnboundArrives => PinnedByStep]_vars
  /\ []BoundAtLogin

\* C8 (amended): so is every such request that the session and admin gates
\* of an admin route, which run before the guard, let through.
C8_FirstGuardedRequestPins ==
  /\ [][(/\ UnboundArrives
         /\ last'.route = "admin"
              => isAdmin(ReqUser(sessions, last'.sid, now)))
          => PinnedByStep]_vars
  /\ []BoundAtLogin

\* the guard has just stored the token of a request as the pinned token of
\* a session that had none
C8_Witness ==
  /\ last.kind = "arrive"
  /\ last.csrf = "stored"
  /\ last.route \in {"cp", "admin"}
  /\ Pinned(session_data, last.sid) = last.tok

\* C9 (as claimed): a login with the correct e-mail and password and a CSRF
\* token is not refused, whatever session cookie it carries.
C9_LoginSucceeds ==
  (/\ last.kind = "arrive"
   /\ last.route = "login"
   /\ last.pwOk
   /\ last.tok # NoToken)
  => last.status = 0

\* C10: when ChangePassword succeeds for U no session row of U is left, no
\* session id issued to U before the change names a row again, and GET
\* /api/auth/user with such an id is answered 401.
C10_ChangeRevokes ==
  /\ ChangeSucceeded => RowsOf(sessions, last.uid) = {}
  /\ \A r \in sessions : r.session_id > cpMark[r.userid]
  /\ (/\ last.route = "user"
      /\ last.sid \in 1 .. Len(owner)
      /\ last.sid <= cpMark[owner[last.sid]])
     => last.status = 401

\* a session cookie issued before the owner's password change was replayed
\* on GET /api/auth/user and answered 401
C10_Witness ==
  /\ last.route = "user"
  /\ last.sid \in 1 .. Len(owner)
  /\ last.sid <= cpMark[owner[last.sid]]
  /\ last.status = 401

\* routes behind the session gate isAuthenticated
AuthenticatedRoutes == {"user", "logout", "cp", "admin"}

\* a request arrives at an authenticated route with the cookie of a session
\* that an earlier logout destroyed
LoggedOutCookieArrives ==
  /\ last'.kind = "arrive"
  /\ last'.route \in AuthenticatedRoutes
  /\ last'.sid \in loggedOut

\* a successful logout removes the row its cookie names, and no logout
\* removes any other row; a destroyed session never comes back
LogoutDestroys ==
  /\ [][(last'.kind = "arrive" /\ last'.route = "logout")
          => /\ sessions \ sessions' \subseteq SessionRows(sessions, last'.sid)
             /\ last'.status = 200 => SessionRows(sessions', last'.sid) = {}]_vars
  /\ [](\A s \in loggedOut : SessionRows(sessions, s) = {})

\* C11 (as claimed): after a successful logout the session row is gone for
\* good, every later request with its cookie to an authenticated route is
\* answered 401, and logout removes no other session.
C11_LoggedOutIs401 ==
  /\ LogoutDestroys
  /\ [][LoggedOutCookieArrives => last'.status = 401]_vars

\* C11 (amended): ... is refused: 401, except that logout and change-password,
\* where the CSRF guard runs before the session gate, answer 403 to a request
\* that carries no CSRF token.
C11_LoggedOutRefused ==
  /\ LogoutDestroys
  /\ [][LoggedOutCookieArrives =>
          /\ ~last'.ran
          /\ IF last'.route \in {"logout", "cp"} /\ last'.tok = NoToken
             THEN last'.status = 403
             ELSE last'.status = 401]_vars

\* a second logout with the cookie of a logged-out session, carrying a CSRF
\* token, was answered 401
C11_Witness ==
  /\ last.kind = "arrive"
  /\ last.route = "logout"
  /\ last.sid \in loggedOut
  /\ last.tok # NoToken
  /\ last.status = 401

\* the case C12 is about: POST /api/auth/logout arrives with no session
\* cookie or with a cookie naming no row whose expires_at text is greater
\* than datetime('now')
UnauthenticatedLogout ==
  /\ last'.kind = "arrive"
  /\ last'.route = "logout"
  /\ \/ last'.sid = NoSid
     \/ ~\E r \in sessions : /\ r.session_id = last'.sid
                             /\ TextGreater(r.expires_at, datetimeNow(now))

Unexpired(r, t) == Before(t, InstantOf(r.expires_at))

\* the cookie sid names a valid session at instant t
ValidSession(ss, sid, t) == \E r \in SessionRows(ss, sid) : Unexpired(r, t)

\* C13 (as claimed): a handler of an admin route runs only for a request
\* whose cookie names a valid unexpired session of an admin; without a valid
\* session the answer is 401, with a valid session of a non-admin it is 403.
C13_AdminGate ==
  [][(last'.kind = "arrive" /\ last'.route = "admin") =>
       LET valid == ValidSession(sessions, last'.sid, now)
           admin == \E r \in SessionRows(sessions, last'.sid) : IsAdminUser(r.userid)
       IN /\ last'.ran => (valid /\ admin)
          /\ ~valid => last'.status = 401
          /\ (valid /\ ~admin) => last'.status = 403]_vars

\* C14 (as claimed): GET /api/auth/user answers 401 when the cookie is
\* absent, names no row or names an expired row; otherwise it answers with
\* the user whose login created the session.
C14_CurrentUser ==
  [][(last'.kind = "arrive" /\ last'.route = "user") =>
       IF ValidSession(sessions, last'.sid, now)
       THEN last'.status = 200 /\ last'.uid = owner[last'.sid]
       ELSE last'.status = 401]_vars

\* a login request that reached the password verification is answered
LoginAnswered ==
  /\ last'.kind = "finish"
  /\ last'.route = "login"

\* the supplied password, hashed with the stored salt, equals the stored hash
HashMatches(u, p) == hashPassword(p, users[u].salt) = users[u].password

\* the user's password was last changed by a request that gave p as the
\* current and q as the new password
ChangedFrom(u, p, q) == pwChange[u] = [old |-> p, new |-> q] /\ q # NoText

\* C15 (as claimed): a login is answered with success only if the supplied
\* password, hashed with the stored salt, equals the stored hash; once a
\* change from p to another password q has succeeded, a login with p fails.
C15_PasswordRoundTrip ==
  /\ [][LoginAnswered => (last'.status = 200 => HashMatches(last'.uid, last'.pw))]_vars
  /\ [][LoginAnswered =>
          \A p, q \in Passwords :
            (ChangedFrom(last'.uid, p, q) /\ p # q /\ last'.pw = p)
              => last'.status # 200]_vars

\* the change-password handler has read the body of a request
ChangeRequested ==
  /\ last'.kind = "arrive"
  /\ last'.route = "cp"
  /\ last'.ran

\* the user's stored hash and salt and all session rows stay as they are
CredentialsAndSessionsKept == users' = users /\ sessions' = sessions

\* C16: a change-password request with a new password shorter than 8
\* characters is answered 400, also when the current password is wrong; one
\* with a wrong current password and an acceptable new one is answered 401
\* once its verification resolves; in both cases the stored hash and salt
\* and the session rows stay as they were.
C16_ErrorsKeepState ==
  /\ [][ChangeRequested =>
          LET short == PwLength(last'.newpw) < MinPasswordLen
              wrong == ~Missing(last'.pw) /\ ~HashMatches(last'.uid, last'.pw)
          IN /\ short => last'.status = 400
             /\ last'.status = 400 => inflight' = inflight
             /\ (wrong /\ ~short) =>
                  /\ last'.status = 0
                  /\ \E q \in BagToSet(inflight') :
                       /\ q.pc = "cp_verify" /\ q.uid = last'.uid /\ ~q.match
                       /\ inflight' = inflight (+) SetToBag({q})
             /\ CredentialsAndSessionsKept]_vars
  /\ [][\A q \in BagToSet(inflight) :
          (q.pc = "cp_verify" /\ ~q.match /\ inflight' = inflight (-) SetToBag({q}))
            => /\ last'.kind = "finish" /\ last'.route = "cp" /\ last'.uid = q.uid
               /\ last'.status = 401
               /\ CredentialsAndSessionsKept]_vars
  /\ [][(last'.route = "cp" /\ last'.status \in {400, 401})
          => CredentialsAndSessionsKept]_vars

\* a change-password request with a wrong current password has just been
\* answered 401 while its user has a session
C16_Witness ==
  /\ last.kind = "finish"
  /\ last.route = "cp"
  /\ last.status = 401
  /\ \E r \in sessions : r.userid = last.uid

\* a login naming an e-mail that is not registered has just been answered /
\* a login naming a registered e-mail with a wrong password has just been
\* answered
UnknownUserAnswered ==
  /\ last.kind = "arrive"
  /\ last.route = "login"
  /\ last.ran
  /\ last.status \notin {0, LoginMissingFields.status}

BadPasswordAnswered ==
  /\ last.kind = "finish"
  /\ last.route = "login"
  /\ ~last.pwOk

\* C17: both are answered with status 401 and the same error text, so status
\* and body do not tell whether the e-mail is registered.
C17_UniformFailure ==
  (UnknownUserAnswered \/ BadPasswordAnswered) =>
    /\ last.status = 401
    /\ last.error = "Invalid email or password"
    /\ last.setSid = NoSid

\* a login with a registered e-mail and a wrong password was answered 401
\* with the text an unregistered e-mail gets
C17_Witness ==
  /\ BadPasswordAnswered
  /\ last.uid \in Users
  /\ last.status = LoginUnknownUser.status
  /\ last.error = LoginUnknownUser.error

\* C18: a login attempt answered 400 or 401 creates no session row, deletes
\* none and sets no session cookie.
C18_FailedLoginKeepsSessions ==
  [][(last'.route = "login" /\ last'.status \in {400, 401}) =>
       /\ sessions' = sessions
       /\ owner' = owner
       /\ last'.setSid = NoSid]_vars

\* a login with the wrong password for a user who has a session was answered
\* 401 and the session is still there
C18_Witness ==
  /\ last.kind = "finish"
  /\ last.route = "login"
  /\ last.status = 401
  /\ \E r \in sessions : r.userid = last.uid

\* C19: a non-GET request that carries a CSRF token neither in the body nor
\* in the header never reaches the handler of a protected route: the CSRF
\* guard answers 403, unless on an admin route the session gate (401) or the
\* admin gate (403) has answered before it.
C19_MissingTokenRefused ==
  (/\ last.kind = "arrive"
   /\ last.method # "GET"
   /\ last.route \in ProtectedRoutes
   /\ last.tok = NoToken)
  => /\ ~last.ran
     /\ last.setSid = NoSid
     /\ IF last.route = "admin" /\ last.auth = "401" THEN last.status = 401
        ELSE last.status = 403
     /\ (last.route # "admin" \/ (last.auth = "ok" /\ IsAdminUser(last.uid)))
          => last.csrf = "403"

\* the CSRF guard refused a POST without a token that an admin sent to an
\* admin route with a valid session
C19_Witness ==
  /\ last.kind = "arrive"
  /\ last.route = "admin"
  /\ last.method = "POST"
  /\ last.tok = NoToken
  /\ last.auth = "ok"
  /\ IsAdminUser(last.uid)
  /\ last.csrf = "403"
  /\ last.status = 403

\* C20: a GET request is never refused by the CSRF guard, whatever token it
\* carries or lacks, and leaves every session's pinned token as it was; on
\* an admin route it is answered by the handler whenever the session and
\* admin gates accept it.
C20_GetExempt ==
  [][(last'.kind = "arrive" /\ last'.method = "GET") =>
       /\ last'.csrf # "403"
       /\ session_data' = session_data
       /\ (last'.route = "admin" /\ last'.auth = "ok" /\ IsAdminUser(last'.uid))
            => (last'.ran /\ last'.status = 200)]_vars

\* a GET with a token other than the one pinned to its session was answered
\* by an admin handler
C20_Witness ==
  /\ last.kind = "arrive"
  /\ last.method = "GET"
  /\ last.route = "admin"
  /\ last.tok # NoToken
  /\ Pinned(session_data, last.sid) \notin {NoToken, last.tok}
  /\ last.status = 200

\* ---------------------------------------------------------------------- C21
\* C21: a request whose session lookup fails in the store, in the session gate
\* of any authenticated route or in the CSRF guard, is answered with a
\* 500-class status, never with 401, and its handler does not run.
C21_LookupFailureIs500 ==
  last.kind = "fault" =>
    /\ last.status \in 500 .. 599
    /\ last.status # 401
    /\ ~last.ran

\* the lookup of an existing session fails in the session gate of logout,
\* and on another run in the CSRF guard of an admin route
C21_Witness ==
  /\ last.kind = "fault"
  /\ SessionRows(sessions, last.sid) # {}
  /\ \/ last.route = "logout" /\ last.auth = "threw"
     \/ last.route = "admin" /\ last.csrf = "threw"

\* ---------------------------------------------------------------------- C22
\* the line items of a cart, in memory or as stored
Lines(c) == {c[i] : i \in 1 .. Len(c)}

\* C22: after any sequence of add-to-cart and quantity-change operations,
\* with any integer entered, every cart line item in memory and in storage
\* has quantity at least 1.
C22_QuantityAtLeastOne ==
  \A it \in Lines(items) \cup Lines(cart) \cup Lines(storage["cart"].json) : it.qty >= 1

\* ---------------------------------------------------------------------- C23
\* the total of the lines at the prices the catalog has
RECURSIVE CatalogTotal(_, _)
CatalogTotal(cat, lines) ==
  IF lines = <<>> THEN 0
  ELSE cat[Head(lines).pid].price * Head(lines).quantity + CatalogTotal(cat, Tail(lines))

\* the stored carts the checkout starts from are carts the pages can leave
StoredCartsReachable == storage["cart"] \in StoredCarts \ {NoValue}

\* C23: the request the checkout page sends carries only product id and
\* quantity per line, and every persisted order is priced from the catalog:
\* each line at the catalog price of its product, the total their sum, also
\* when the request carried a different price.
C23_PriceIntegrity ==
  /\ checkout.request.sent =>
       \A i \in 1 .. Len(checkout.request.items) :
         DOMAIN checkout.request.items[i] = {"pid", "quantity"}
  /\ \A k \in 1 .. Len(orders) :
       /\ \A i \in 1 .. Len(orders[k].items) :
            orders[k].items[i].price = catalog[orders[k].items[i].pid].price
       /\ orders[k].total = CatalogTotal(catalog, orders[k].items)
  /\ reply.status = 201 =>
       /\ Len(orders[reply.orderId].items) = Len(reply.request.items)
       /\ orders[reply.orderId].total = CatalogTotal(catalog, reply.request.items)

\* an order was persisted for a request whose line carried a price other
\* than the catalog's, and another for a cart filled before the repricing
C23_Witness ==
  /\ reply.status = 201
  /\ \/ \E i \in 1 .. Len(reply.request.items) :
          /\ "price" \in DOMAIN reply.request.items[i]
          /\ reply.request.items[i].price # catalog[reply.request.items[i].pid].price
     \/ /\ catalog = Repriced
        /\ reply.request = checkout.request
        /\ \E i \in 1 .. Len(items) : items[i].pid = <<"1">> /\ items[i].price # 120

\* ---------------------------------------------------------------------- C24
\* an order request with a line for a product the catalog does not have or
\* with a quantity below 1
InvalidItems(req) ==
  \E i \in 1 .. Len(req.items) :
    req.items[i].pid \notin DOMAIN catalog \/ req.items[i].quantity <= 0

\* the server handles an order request in this step
OrderRequestHandled == reply'.status # 0 /\ <<orders, reply>>' # <<orders, reply>>

\* C24: an order request with a nonexistent product id or a non-positive
\* quantity on any line is answered with a 4xx status and persists nothing;
\* every persisted order has all the lines of its request.
C24_NoPartialOrders ==
  /\ [][OrderRequestHandled /\ InvalidItems(reply'.request) =>
          reply'.status \in 400 .. 499 /\ orders' = orders]_vars
  /\ [][OrderRequestHandled /\ orders' # orders =>
          /\ Len(orders') = Len(orders) + 1
          /\ reply'.status = 201
          /\ Len(orders'[Len(orders')].items) = Len(reply'.request.items)]_vars

\* a request with one existing and one nonexistent product id, and its CSRF
\* token in order, was answered 400 with no order row persisted
C24_Witness ==
  /\ reply.status = 400
  /\ reply.request.csrf_token = issued
  /\ Len(reply.request.items) = 2
  /\ \E i, j \in 1 .. 2 :
       /\ reply.request.items[i].pid \in DOMAIN catalog
       /\ reply.request.items[i].quantity >= 1
       /\ reply.request.items[j].pid \notin DOMAIN catalog
  /\ orders = <<>>

\* ---------------------------------------------------------------------- C25
\* C25: once a password change of U has succeeded, every session of U was
\* created after the change, by a login that supplied the new password; this
\* under every interleaving with logins suspended in password verification.
C25_SessionsAfterChange ==
  /\ [](\A r \in sessions : r.session_id > cpMark[r.userid])
  /\ [][(/\ LoginAnswered
         /\ last'.status = 200
         /\ pwChange[last'.uid].new # NoText)
        => last'.pw = pwChange[last'.uid].new]_vars

\* ---------------------------------------------------------------------- C26
\* a change-password request is answered with success in this step
ChangeAnswered200 ==
  /\ last'.kind = "finish"
  /\ last'.route = "cp"
  /\ last'.status = 200

\* C26: a change-password request is answered with success, and replaces
\* the stored password, only if the current password it supplied verifies
\* against the hash stored at the moment of the update; so of two concurrent
\* requests that supply the original password at most one succeeds.  (The
\* claim also asks for the requesting session to be valid at that moment.)
C26_ChangeVerifiesAtUpdate ==
  [][ChangeAnswered200 =>
       verifyPassword(last'.pw, users[last'.uid].password, users[last'.uid].salt)]_vars

\* ---------------------------------------------------------------------- C27
\* a request is answered with an error status in this step
ErrorAnswered == last'.kind \in {"arrive", "finish"} /\ last'.status \in {400, 401, 403}

\* C27: a request answered 400, 401 or 403 leaves the users, sessions and
\* session_data tables as they were; a rejected login or logout pins no
\* CSRF token.
C27_ErrorsChangeNothing ==
  [][ErrorAnswered => UNCHANGED <<users, sessions, session_data>>]_vars

\* ---------------------------------------------------------------------- C28
\* C28: every session_data row names a row of sessions; a session that is
\* destroyed (logout, rotation at login, password change) loses its pinned
\* token with it, and a pinned token disappears only when its session does.
C28_NoOrphanedPins ==
  /\ [](\A d \in session_data : SessionRows(sessions, d.session_id) # {})
  /\ [][\A sid \in 1 .. Len(owner) :
          (Pinned(session_data, sid) # NoToken /\ Pinned(session_data', sid) = NoToken)
            => SessionRows(sessions', sid) = {}]_vars

\* a session with a pinned token was destroyed: by its logout, by the
\* rotation of a login, by a password change
C28_Witness ==
  \/ /\ last.route = "logout" /\ last.status = 200
     /\ SessionRows(sessions, last.sid) = {}
     /\ Pinned(session_data, last.sid) = NoToken
  \/ /\ last.kind = "finish" /\ last.route \in {"login", "cp"} /\ last.status = 200
     /\ \E sid \in 1 .. Len(owner) :
          /\ owner[sid] = last.uid
          /\ sid # last.setSid
          /\ SessionRows(sessions, sid) = {}

\* ---------------------------------------------------------------------- C29
\* C29: when handleLogout has finished without an exception and the stored
\* user is removed, no valid session exists for the session_id cookie the
\* browser holds.
C29_LoggedOutClientHasNoSession ==
  (browser.done = "logout" /\ ~storage["user"].set)
    => ~ValidSession(sessions, browser.session_id, now)

\* ---------------------------------------------------------------------- C30
\* C30: a CSRF token that a page attaches to a mutating request (login,
\* logout, a csrfUtils POST, the order of the checkout page) is the value of
\* the csrf_token cookie the browser holds when the request is sent.
C30_AttachedTokenIsCookie ==
  /\ browser.fetch.route # "none" => browser.fetch.tok = browser.fetch.cookie
  /\ (page = "checkout.js" /\ checkout.request.sent)
       => checkout.request.csrf_token = issued

\* ---------------------------------------------------------------------- C31
\* no two lines of the cart have the same pid
OneLinePerPid(c) ==
  \A i, j \in 1 .. Len(c) : Prop(c[i], "pid") = Prop(c[j], "pid") => i = j

\* C31: from an empty cart, after any sequence of ShoppingCart operations the
\* cart (in memory and as stored) has at most one line per pid; a line is
\* appended only for a pid that is not in the cart, and the lines already
\* there keep their place.
C31_OneLinePerPid ==
  /\ [](OneLinePerPid(items) /\ OneLinePerPid(storage["cart"].json))
  /\ [][(page = "cart.js" /\ page' = "cart.js" /\ Len(items') > Len(items))
          => /\ Len(items') = Len(items) + 1
             /\ \A i \in 1 .. Len(items) :
                  /\ items'[i] = items[i]
                  /\ items'[Len(items')].pid # items[i].pid]_vars

\* a product already in the cart was added again: one line, quantity 2, in
\* front of a line added after it
C31_Witness ==
  /\ page = "cart.js"
  /\ Len(items) = 2
  /\ items[1].pid = <<"1">> /\ items[1].qty = 2
  /\ items[2].pid = <<"2">>

\* ---------------------------------------------------------------------- C32
\* C32: the items of a ShoppingCart that loadFromStorage filled all have a
\* non-empty pid, whatever array was stored: id-keyed, name-keyed, empty or
\* mixed.
C32_LoadedItemsHavePid ==
  page = "cart.js" => \A it \in Lines(items) : Truthy(it.pid)

\* ---------------------------------------------------------------------- C33
\* a ShoppingCart operation that saved the cart has just run
CartSaved == page = "cart.js" /\ page' = "cart.js" /\ storage' # storage

\* the stored array has the lines of c: same pid, name, price and quantity,
\* in the same order
StoredEquals(st, c) ==
  /\ st["cart"].set
  /\ Len(st["cart"].json) = Len(c)
  /\ \A i \in 1 .. Len(c) :
       /\ Prop(st["cart"].json[i], "pid") = c[i].pid
       /\ st["cart"].json[i].name = c[i].name
       /\ st["cart"].json[i].price = c[i].price
       /\ st["cart"].json[i].qty = c[i].qty

\* C33: a cart whose items all have a non-empty pid is read back from
\* storage as it was saved, item by item in the same order, and after a
\* ShoppingCart operation that saves, the stored cart has the lines of the
\* cart in memory.
C33_PersistenceRoundTrip ==
  /\ []((page = "cart.js" /\ \A it \in Lines(items) : Truthy(it.pid))
          => loadFromStorage(<<>>, saveToStorage(storage, items)) = items)
  /\ [][CartSaved => StoredEquals(storage', items')]_vars

\* a cart of two lines was saved by a quantity change and reads back the same
C33_Witness ==
  /\ page = "cart.js"
  /\ Len(items) = 2
  /\ items[1].qty = 2
  /\ storage["cart"].set
  /\ loadFromStorage(<<>>, storage) = items

\* ---------------------------------------------------------------------- C34
\* refreshProductDetails has gone on after a fetch
RefreshAnswered == refresh' # refresh /\ refresh'.step = "answer"

\* C34: a step of refreshProductDetails leaves the lines of the cart, their
\* pids and their quantities as the user's changes made them (it sets name
\* and price only), and what it saves at its end is that cart.
C34_RefreshKeepsUserChanges ==
  [][RefreshAnswered =>
       /\ Len(items') = Len(items)
       /\ \A i \in 1 .. Len(items) :
            items'[i].pid = items[i].pid /\ items'[i].qty = items[i].qty
       /\ storage' # storage => StoredEquals(storage', items')]_vars

\* the refresh has ended and saved after the user removed a product it had
\* collected and changed the quantity of another: the one is absent, the
\* other has the new quantity and the price of the catalog
C34_Witness ==
  /\ refresh.step = "answer"
  /\ ~refresh.active
  /\ refresh.pids = << <<"1">>, <<"2">> >>
  /\ refresh.left = items
  /\ catalog = Repriced
  /\ Len(items) = 1
  /\ items[1].pid = <<"1">> /\ items[1].qty = 1 /\ items[1].price = 120
  /\ StoredEquals(storage, items)

\* ---------------------------------------------------------------------- C35
\* C35: an item that the other tab holds and has stored, and that the cart
\* of this tab does not have, is still in the stored cart after a cart
\* operation of this tab.
C35_NoLostUpdate ==
  [][CartSaved =>
       \A it \in Lines(storage["cart"].json) :
         (FindByPid(other.items, it.pid) # 0 /\ FindByPid(items, it.pid) = 0)
           => FindByPid(storage'["cart"].json, it.pid) # 0]_vars

\* ---------------------------------------------------------------------- C36
\* C36: while the order request of a checkout page is under way, and after
\* it succeeded, the page's button is disabled, so a click cannot send a
\* second request; the button of a page is enabled again only after a
\* request that failed; a page whose order was created has no request
\* under way and keeps its button disabled.
C36_OneOrderRequest ==
  /\ []((checkout.request.sent \/ checkout.submitted) => checkout.disabled)
  /\ [](checkout.submitted => ~checkout.request.sent)
  /\ [][(checkout.disabled /\ ~checkout'.disabled /\ checkout' # NoCheckout)
          => (checkout.status # 0 /\ checkout.status \notin 200 .. 299)]_vars
  /\ [][(checkout.request.sent /\ ~checkout'.request.sent /\ checkout' # NoCheckout
           /\ checkout.status \in 200 .. 299)
          => (checkout'.submitted /\ checkout'.disabled)]_vars

\* a click created the order, the answer arrived and the button is still
\* disabled
C36_Witness ==
  /\ page = "checkout.js"
  /\ checkout.submitted
  /\ checkout.disabled
  /\ ~checkout.request.sent
  /\ Len(orders) = 1
  /\ reply.status = 201

\* ---------------------------------------------------------------------- C37
\* the text is d...d.dd, and the number of cents it stands for
IsDigit(ch) == \E d \in 1 .. 10 : DigitText[d] = ch
DigitValue(ch) == (CHOOSE d \in 1 .. 10 : DigitText[d] = ch) - 1
RECURSIVE DigitsValue(_)
DigitsValue(t) == IF t = <<>> THEN 0
                  ELSE 10 * DigitsValue(SubSeq(t, 1, Len(t) - 1)) + DigitValue(t[Len(t)])
TwoDecimals(t) ==
  /\ Len(t) >= 4
  /\ t[Len(t) - 2] = "."
  /\ \A i \in (1 .. Len(t)) \ {Len(t) - 2} : IsDigit(t[i])
CentsOf(t) == 100 * DigitsValue(SubSeq(t, 1, Len(t) - 3)) + DigitsValue(SubSeq(t, Len(t) - 1, Len(t)))

\* C37: the form submitted for an order answer with n items holds exactly 4n
\* hidden fields: for k = 1..n, in this order, item_name_k, item_number_k,
\* amount_k and quantity_k, with the name, product id, price and quantity
\* of the k-th item of the answer, the price written with two decimals.
C37_PayPalFields ==
  checkout.submitted =>
    LET its == checkout.response
        f   == checkout.fields
    IN /\ Len(f) = 4 * Len(its)
       /\ \A k \in 1 .. Len(its) :
            /\ f[4 * k - 3] = [name |-> <<"item_name_">> \o Decimal(k), value |-> its[k].name]
            /\ f[4 * k - 2] = [name |-> <<"item_number_">> \o Decimal(k), value |-> its[k].pid]
            /\ f[4 * k - 1].name = <<"amount_">> \o Decimal(k)
            /\ TwoDecimals(f[4 * k - 1].value)
            /\ CentsOf(f[4 * k - 1].value) = its[k].price
            /\ f[4 * k].name = <<"quantity_">> \o Decimal(k)
            /\ DigitsValue(f[4 * k].value) = its[k].quantity

\* the form was submitted for an order of two different products
C37_Witness ==
  /\ checkout.submitted
  /\ Len(checkout.response) = 2
  /\ checkout.response[1].pid # checkout.response[2].pid
  /\ Len(checkout.fields) = 8
  /\ checkout.fields[3].value = <<"1", ".", "5", "0">>
  /\ checkout.fields[7].value = <<"3", ".", "3", "0">>

\* ---------------------------------------------------------------------- C38
\* C38: DELETE /api/categories/:id for a category that has a product is
\* answered with 400 and leaves the categories and products tables as they
\* were; after any sequence of category and product requests the catid of
\* every product names a row of categories.
CategoryDeleteAnswered ==
  /\ inventory' # inventory
  /\ inventory'.route = "DELETE /api/categories/:id"
  /\ inventory'.pending = inventory.pending
C38_NoOrphanedProducts ==
  /\ [](\A p \in inventory.products : \E c \in inventory.categories : c.catid = p.catid)
  /\ [][(CategoryDeleteAnswered /\ \E p \in inventory.products : p.catid = inventory'.id)
          => /\ inventory'.status = 400
             /\ inventory'.categories = inventory.categories
             /\ inventory'.products = inventory.products]_vars

\* the delete of a category with a product was refused, both are still there
C38_Witness ==
  /\ inventory.route = "DELETE /api/categories/:id"
  /\ inventory.status = 400
  /\ inventory.id \in CatIds(inventory)
  /\ \E p \in inventory.products : p.catid = inventory.id

====
